---- MODULE Spec2Model ----
(***************************************************************************)
(* NIQE / IL-NIQE (pyiqa/archs/niqe_arch.py, pyiqa/archs/func_util.py).    *)
(*                                                                         *)
(* Floating-point values are exact rationals plus the three IEEE specials  *)
(* (NaN, +inf, -inf); rounding is not modelled.  Each routine of the       *)
(* source is a group of actions over its own variables; a specification    *)
(* per routine starts the routine on inputs drawn from bounded sets and    *)
(* leaves the other routines idle.                                         *)
(***************************************************************************)
EXTENDS Integers, Sequences, FiniteSets, TLC

VARIABLES
    wb_x,        \* fitweibull: the rows of x (B rows)
    wb_pc,       \* fitweibull: "idle", "start", "loop", "scale", "done"
    wb_k,        \* fitweibull: k, one value per row
    wb_k_t_1,    \* fitweibull: k_t_1, one value per row
    wb_t,        \* fitweibull: number of loop bodies run so far
    wb_lam,      \* fitweibull: lam, one value per row
    wb_hist,     \* fitweibull: trace of the call (errors seen, scale computations)
    nm_arg,      \* nanmean: the caller's tensor
    nm_in,       \* nanmean: the caller's tensor as it was when passed
    nm_v,        \* nanmean: the local v
    nm_inplace,  \* nanmean: the inplace argument (v aliases the caller's tensor)
    nm_is_nan,   \* nanmean: is_nan
    nm_pc,       \* nanmean: "idle", "start", "mask", "fill", "ret", "done"
    nm_out,      \* nanmean: the value returned
    gg_x,        \* estimate_ggd_param: x, one pixel sequence per block
    gg_pc,       \* estimate_ggd_param: "idle", "start", "assert", "solve", "done", "raised"
    gg_sigma_sq, \* estimate_ggd_param: sigma_sq, one value per block
    gg_out,      \* estimate_ggd_param: (solution, sigma) per block once returned
    bk_pipe,     \* niqe / ilniqe: which of the two runs
    bk_arg,      \* the call: [b, h, w] of img, block_size_h, block_size_w, resize
    bk_pc,       \* "idle", "start", "crop", "norm", "blocks", "stack", "down", "cat", "done", "raised"
    bk_shape,    \* b, c, h, w = img.shape as read before the crop
    bk_num,      \* <<num_block_h, num_block_w>>
    bk_img,      \* <<height, width>> of img now
    bk_src,      \* <<height, width>> of the top-left part of the image read at
                 \* the crop that img now holds or was computed from
    bk_map,      \* <<height, width>> of the normalized map of this scale
    bk_scale,    \* the loop variable scale
    bk_idx,      \* <<idx_w, idx_h>> of the next block
    bk_feat,     \* feat: the features of this scale's blocks
    bk_blocks,   \* every block sliced so far, in order
    bk_distparam, \* distparam: a list of tensors, then the concatenated tensor
    bk_downs,    \* trace: per downsample executed, the scale and the blocks extracted before it
    bk_reads,    \* trace: per normalization, the scale and the downsamples img had gone through
    sc_pipe,     \* scoring: "niqe" or "ilniqe"
    sc_in,       \* scoring: per batch item, what its blocks hold
    sc_model,    \* scoring: the pretrained tensors of one batch item
    sc_pc,       \* scoring: the next statement, or "done" / "raised"
    sc_err,      \* scoring: the exception raised, "" if none
    sc_ops,      \* scoring: the matrix operations executed so far
    sc_distparam,      \* distparam, one (blocks x features) matrix per item
    sc_final_features, \* ilniqe: final_features
    sc_nonan,          \* ilniqe: final_features_nonan, each row with the
                       \* (item, block) it was taken from
    sc_cov_distparam,  \* cov_distparam
    sc_mu,             \* niqe: mu_distparam; ilniqe: mu_final_features
    sc_withmu,         \* ilniqe: final_features_withmu
    sc_invcov,         \* invcov_param
    sc_quality,         \* quality, one per item
    cr_fn, \* calculate_niqe / calculate_ilniqe: which of the two is called
    cr_arg, \* the call: the caller's img and crop_border
    cr_img, \* the local img
    cr_pc, \* "idle", "start", "crop", "call", "done"
    cr_passed, \* the img argument of the niqe / ilniqe call
    fr_arg, \* memory: the call (pipeline, resize) and the storages as the caller passed them
    fr_heap, \* memory: the values held by each tensor storage, <<>> if not allocated
    fr_ref, \* memory: the storage each local name refers to
    fr_pc, \* memory: the next statement of niqe / ilniqe, or "done"
    fr_written, \* memory: the storages written in place so far
    fr_passed, \* memory: the storage passed to nanmean and what it held then
    ag_block, \* estimate_aggd_param: the pixels of the block
    ag_pc, \* estimate_aggd_param: "idle", "start", "std", "gammahat", "rhat", "rhatnorm", "solve", "done"
    ag_count, \* estimate_aggd_param: <<count_left, count_right>>
    ag_var, \* estimate_aggd_param: the arguments of safe_sqrt for <<left_std, right_std>>
    ag_rhat, \* estimate_aggd_param: rhat
    ag_divs, \* estimate_aggd_param: the divisions performed so far
    ag_alpha, \* estimate_aggd_param: how alpha was picked
    fl_arg, \* flat-image run: the call of niqe (ndim, h, w and the pixel value of each column of img)
    fl_pc, \* flat-image run: the next statement of niqe, or "done" / "raised"
    fl_img, \* flat-image run: img now, [h, w, flat]
    fl_num, \* flat-image run: <<num_block_h, num_block_w>>
    fl_scale, \* flat-image run: the loop variable scale
    fl_map, \* flat-image run: img_normalized, the sign of each column
    fl_calls, \* flat-image run: the fitter calls made so far
    fl_distparam, \* flat-image run: distparam
    fl_err, \* flat-image run: the exception raised, "" if none
    fl_quality \* flat-image run: the value returned

wbVars == <<wb_x, wb_pc, wb_k, wb_k_t_1, wb_t, wb_lam, wb_hist>>

nmVars == <<nm_arg, nm_in, nm_v, nm_inplace, nm_is_nan, nm_pc, nm_out>>

ggVars == <<gg_x, gg_pc, gg_sigma_sq, gg_out>>

bkVars == <<bk_pipe, bk_arg, bk_pc, bk_shape, bk_num, bk_img, bk_src, bk_map, bk_scale,
           bk_idx, bk_feat, bk_blocks, bk_distparam, bk_downs, bk_reads>>

scVars == <<sc_pipe, sc_in, sc_model, sc_pc, sc_err, sc_ops, sc_distparam,
           sc_final_features, sc_nonan, sc_cov_distparam, sc_mu, sc_withmu,
           sc_invcov, sc_quality>>

crVars == <<cr_fn, cr_arg, cr_img, cr_pc, cr_passed>>

frVars == <<fr_arg, fr_heap, fr_ref, fr_pc, fr_written, fr_passed>>

agVars == <<ag_block, ag_pc, ag_count, ag_var, ag_rhat, ag_divs, ag_alpha>>

flVars == <<fl_arg, fl_pc, fl_img, fl_num, fl_scale, fl_map, fl_calls, fl_distparam, fl_err, fl_quality>>

vars == <<wbVars, nmVars, ggVars, bkVars, scVars, crVars, frVars, agVars, flVars>>

\* the variables of the other routines
wbRest == <<nmVars, ggVars, bkVars, scVars, crVars, frVars, agVars, flVars>>
nmRest == <<wbVars, ggVars, bkVars, scVars, crVars, frVars, agVars, flVars>>
ggRest == <<wbVars, nmVars, bkVars, scVars, crVars, frVars, agVars, flVars>>
bkRest == <<wbVars, nmVars, ggVars, scVars, crVars, frVars, agVars, flVars>>
scRest == <<wbVars, nmVars, ggVars, bkVars, crVars, frVars, agVars, flVars>>
crRest == <<wbVars, nmVars, ggVars, bkVars, scVars, frVars, agVars, flVars>>
frRest == <<wbVars, nmVars, ggVars, bkVars, scVars, crVars, agVars, flVars>>
agRest == <<wbVars, nmVars, ggVars, bkVars, scVars, crVars, frVars, flVars>>
flRest == <<wbVars, nmVars, ggVars, bkVars, scVars, crVars, frVars, agVars>>

(***************************************************************************)
(* IEEE values: [c |-> class, n |-> numerator, d |-> denominator].         *)
(***************************************************************************)
Abs(i) == IF i < 0 THEN -i ELSE i

RECURSIVE Gcd(_, _)
Gcd(a, b) == IF b = 0 THEN a ELSE Gcd(b, a % b)

NaN  == [c |-> "nan",  n |-> 0, d |-> 1]
PInf == [c |-> "pinf", n |-> 0, d |-> 1]
NInf == [c |-> "ninf", n |-> 0, d |-> 1]

\* the rational n/d (d # 0) in lowest terms with a positive denominator
Q(n, d) ==
    LET g == Gcd(Abs(n), Abs(d))
        s == IF d < 0 THEN -1 ELSE 1
    IN  [c |-> "fin", n |-> (s * n) \div g, d |-> Abs(d) \div g]

Fin(n) == Q(n, 1)

IsNaN(a) == a.c = "nan"
IsFin(a) == a.c = "fin"
IsInf(a) == a.c \in {"pinf", "ninf"}

Sign(a) ==
    CASE a.c = "pinf" -> 1
      [] a.c = "ninf" -> -1
      [] a.c = "fin"  -> (IF a.n > 0 THEN 1 ELSE IF a.n < 0 THEN -1 ELSE 0)
      [] OTHER        -> 0

FNeg(a) ==
    CASE a.c = "pinf" -> NInf
      [] a.c = "ninf" -> PInf
      [] a.c = "fin"  -> Q(-a.n, a.d)
      [] OTHER        -> NaN

FAdd(a, b) ==
    IF IsNaN(a) \/ IsNaN(b) THEN NaN
    ELSE IF IsInf(a) /\ IsInf(b) THEN (IF a.c = b.c THEN a ELSE NaN)
    ELSE IF IsInf(a) THEN a
    ELSE IF IsInf(b) THEN b
    ELSE Q(a.n * b.d + b.n * a.d, a.d * b.d)

FSub(a, b) == FAdd(a, FNeg(b))

FMul(a, b) ==
    IF IsNaN(a) \/ IsNaN(b) THEN NaN
    ELSE IF IsInf(a) \/ IsInf(b)
         THEN (IF Sign(a) * Sign(b) = 0 THEN NaN
               ELSE IF Sign(a) * Sign(b) > 0 THEN PInf ELSE NInf)
    ELSE Q(a.n * b.n, a.d * b.d)

\* a / b; a zero divisor is +0
FDiv(a, b) ==
    IF IsNaN(a) \/ IsNaN(b) THEN NaN
    ELSE IF IsInf(a) /\ IsInf(b) THEN NaN
    ELSE IF IsInf(a) THEN (IF Sign(b) < 0 THEN FNeg(a) ELSE a)
    ELSE IF IsInf(b) THEN Fin(0)
    ELSE IF b.n = 0
         THEN (IF a.n = 0 THEN NaN ELSE IF a.n > 0 THEN PInf ELSE NInf)
    ELSE Q(a.n * b.d, a.d * b.n)

FAbs(a) == IF Sign(a) < 0 THEN FNeg(a) ELSE a

\* a < b; every comparison with NaN is false
FLt(a, b) ==
    IF IsNaN(a) \/ IsNaN(b) THEN FALSE
    ELSE IF a.c = "ninf" THEN b.c # "ninf"
    ELSE IF b.c = "pinf" THEN a.c # "pinf"
    ELSE IF a.c = "pinf" \/ b.c = "ninf" THEN FALSE
    ELSE a.n * b.d < b.n * a.d

\* Tensor.max(): NaN if any entry is NaN, else the largest entry
RECURSIVE TMax(_)
TMax(s) ==
    IF Len(s) = 1 THEN s[1]
    ELSE LET m == TMax(Tail(s))
         IN  IF IsNaN(s[1]) \/ IsNaN(m) THEN NaN
             ELSE IF FLt(s[1], m) THEN m ELSE s[1]

RECURSIVE TSum(_)
TSum(s) == IF s = <<>> THEN Fin(0) ELSE FAdd(s[1], TSum(Tail(s)))

(***************************************************************************)
(* fitweibull(x, iters, eps)                         niqe_arch.py 38-77    *)
(*                                                                         *)
(* A row of x is [x, k0, step]: its samples, the finite start value        *)
(* 1.2 / std(ln x) its data gives, and the finite Newton increments        *)
(* -f/f' its data gives at iterations 1..iters.  k is counted in units of  *)
(* eps / Eps.  The sums ff, fg, f1, ff_prime are all taken along dim=-1,   *)
(* so a row's increment depends on that row alone.                         *)
(***************************************************************************)
Iters == 3          \* the iters argument
Eps == 2            \* the eps argument, in model units
WbRows == 2         \* B, the number of rows of x

Samples == {-1, 0, 2}
K0s == {5, 6}
Steps == {-2, 1}    \* |-2| >= Eps, |1| < Eps

PosRow(xs) == \A i \in DOMAIN xs : xs[i] > 0

\* rows whose samples are all positive carry any start value and increments;
\* the others never read them
WbRowSet ==
    { r \in [x : [1..2 -> Samples], k0 : K0s, step : [1..Iters -> Steps]] :
        PosRow(r.x) \/ (r.k0 = 5 /\ \A t \in 1..Iters : r.step[t] = 1) }

\* torch.log of one sample; a finite logarithm is kept as x - 1
MLogZeroFinite(v) == IF v < 0 THEN NaN ELSE Fin(v - 1)
Log(v) == IF v < 0 THEN NaN ELSE IF v = 0 THEN NInf ELSE Fin(v - 1)

\* k = 1.2 / torch.std(ln_x, dim=1): a -inf or NaN in ln_x makes the
\* deviations (-inf) - (-inf) or NaN, so std is NaN
InitK(row) ==
    IF \E i \in DOMAIN row.x : ~IsFin(Log(row.x[i])) THEN NaN ELSE Fin(row.k0)

\* k - f / f_prime for one row, in loop body t (1-based)
Newton(row, k, t) == IF IsNaN(k) THEN NaN ELSE FAdd(k, Fin(row.step[t]))

\* torch.abs(k - k_t_1).max().item()
MaxChange(k, kprev) == TMax([r \in DOMAIN k |-> FAbs(FSub(k[r], kprev[r]))])

\* torch.mean(x ** k, dim=-1) ** (1.0 / k) for one row: NaN when k is NaN,
\* else a finite value the row and k give (kept as k)
Scale(row, k) == IF IsNaN(k) THEN NaN ELSE k

WbIdle ==
    /\ wb_x = <<>> /\ wb_pc = "idle" /\ wb_k = <<>> /\ wb_k_t_1 = <<>>
    /\ wb_t = 0 /\ wb_lam = <<>>
    /\ wb_hist = [errs |-> <<>>, scales |-> 0]

WbCall ==
    /\ wb_x \in [1..WbRows -> WbRowSet]
    /\ wb_pc = "start" /\ wb_k = <<>> /\ wb_k_t_1 = <<>>
    /\ wb_t = 0 /\ wb_lam = <<>>
    /\ wb_hist = [errs |-> <<>>, scales |-> 0]

\* lines 50-52
WbStart ==
    /\ wb_pc = "start"
    /\ wb_k' = [r \in DOMAIN wb_x |-> InitK(wb_x[r])]
    /\ wb_k_t_1' = wb_k'
    /\ wb_pc' = IF Iters = 0 THEN "scale" ELSE "loop"
    /\ UNCHANGED <<wb_x, wb_t, wb_lam, wb_hist>>

\* k_t_1 after a loop body that did not break (line 72)
MKeepPrev(k, kprev) == kprev
NextPrev(k, kprev) == k

\* one body of the loop, lines 55-70: the new k, the error, and whether the
\* loop breaks
WbBody(x, k, kprev, t) ==
    LET k2 == [r \in DOMAIN x |-> Newton(x[r], k[r], t)]
        error == MaxChange(k2, kprev)
    IN  [k |-> k2, error |-> error, brk |-> FLt(error, Fin(Eps))]

\* one body of the loop, lines 54-72
WbIter ==
    /\ wb_pc = "loop"
    /\ wb_t < Iters
    /\ LET body == WbBody(wb_x, wb_k, wb_k_t_1, wb_t + 1)
       IN  /\ wb_k' = body.k
           /\ wb_t' = wb_t + 1
           /\ wb_hist' = [wb_hist EXCEPT !.errs = Append(@, body.error)]
           /\ IF body.brk
              THEN /\ wb_pc' = "scale"
                   /\ UNCHANGED wb_k_t_1
              ELSE /\ wb_k_t_1' = NextPrev(body.k, wb_k_t_1)
                   /\ wb_pc' = IF wb_t + 1 = Iters THEN "scale" ELSE "loop"
    /\ UNCHANGED <<wb_x, wb_lam>>

\* the loop of lines 54-72 from body t on: the k it ends with
RECURSIVE WbLoop(_, _, _, _)
WbLoop(x, k, kprev, t) ==
    IF t > Iters THEN k
    ELSE LET body == WbBody(x, k, kprev, t)
         IN  IF body.brk THEN body.k
             ELSE WbLoop(x, body.k, NextPrev(body.k, kprev), t + 1)

\* fitweibull(x) as a function: (k, lam), one pair per row
fitweibull(x) ==
    LET k0 == [r \in DOMAIN x |-> InitK(x[r])]
        k == WbLoop(x, k0, k0, 1)
    IN  [r \in DOMAIN x |-> [k |-> k[r], lam |-> Scale(x[r], k[r])]]

\* lines 75-77
WbScale ==
    /\ wb_pc = "scale"
    /\ wb_lam' = [r \in DOMAIN wb_x |-> Scale(wb_x[r], wb_k[r])]
    /\ wb_hist' = [wb_hist EXCEPT !.scales = @ + 1]
    /\ wb_pc' = "done"
    /\ UNCHANGED <<wb_x, wb_k, wb_k_t_1, wb_t>>

WbNext ==
    \/ WbStart /\ UNCHANGED wbRest
    \/ WbIter /\ UNCHANGED wbRest
    \/ WbScale /\ UNCHANGED wbRest

(***************************************************************************)
(* fitweibull: what the loop is expected to compute, stated without the    *)
(* loop.                                                                   *)
(***************************************************************************)
RECURSIVE SumSteps(_, _)
SumSteps(step, n) == IF n = 0 THEN 0 ELSE step[n] + SumSteps(step, n - 1)

\* k of a row after n Newton updates
KAfter(row, n) ==
    IF PosRow(row.x) THEN Fin(row.k0 + SumSteps(row.step, n)) ELSE NaN

\* max over the rows of |k_t - k_(t-1)|
ChangeAt(t) ==
    TMax([r \in DOMAIN wb_x |->
            FAbs(FSub(KAfter(wb_x[r], t), KAfter(wb_x[r], t - 1)))])

BelowEps == {t \in 1..Iters : FLt(ChangeAt(t), Fin(Eps))}

ExitAt == IF BelowEps = {} THEN Iters
          ELSE CHOOSE t \in BelowEps : \A u \in BelowEps : t <= u

\* some action of fitweibull can run: the guards of WbStart, WbIter, WbScale
WbCanStep ==
    \/ wb_pc = "start"
    \/ wb_pc = "loop" /\ wb_t < Iters
    \/ wb_pc = "scale"

\* C7 (as stated): fitweibull never returns a (shape, scale) result for an
\* input that holds a zero or negative value.
C7_NoResultForNonPositive ==
    wb_pc = "done" => \A r \in DOMAIN wb_x : PosRow(wb_x[r].x)

\* C7 (amended): fitweibull has no failure path: on an input with a zero or
\* negative value it runs to its return, and the row holding that value gets
\* shape NaN and scale NaN.
C7_NonPositiveGivesNaN ==
    /\ (wb_pc \in {"start", "loop", "scale"} => WbCanStep)
    /\ wb_pc = "done" =>
         \A r \in DOMAIN wb_x :
            ~PosRow(wb_x[r].x) => IsNaN(wb_k[r]) /\ IsNaN(wb_lam[r])

\* a call that returned NaN for a row with a zero and a finite pair for the
\* other row
C7_Witness ==
    /\ wb_pc = "done"
    /\ \E r \in DOMAIN wb_x :
          /\ \E i \in DOMAIN wb_x[r].x : wb_x[r].x[i] = 0
          /\ IsNaN(wb_k[r]) /\ IsNaN(wb_lam[r])
    /\ \E r \in DOMAIN wb_x : IsFin(wb_k[r]) /\ IsFin(wb_lam[r])

\* C9: fitweibull ends after at most iters Newton updates: at the first
\* iteration whose maximum absolute change over all rows is below eps, else
\* after exactly iters updates; the scale is then computed once, from the last
\* k, and returned.
C9_BoundedNewton ==
    /\ wb_t <= Iters
    /\ Len(wb_hist.errs) = wb_t
    /\ \A t \in 1..wb_t : wb_hist.errs[t] = ChangeAt(t)
    /\ (wb_pc \in {"start", "loop", "scale"} => WbCanStep)
    /\ (wb_pc = "loop" => wb_t < ExitAt /\ wb_hist.scales = 0)
    /\ (wb_pc \in {"scale", "done"} => wb_t = ExitAt)
    /\ wb_pc = "done" =>
         /\ wb_hist.scales = 1
         /\ \A r \in DOMAIN wb_x :
               /\ wb_k[r] = KAfter(wb_x[r], ExitAt)
               /\ wb_lam[r] = Scale(wb_x[r], KAfter(wb_x[r], ExitAt))

\* a call on positive rows that never met the tolerance and still returned
C9_Witness ==
    /\ wb_pc = "done"
    /\ wb_t = Iters
    /\ BelowEps = {}
    /\ \A r \in DOMAIN wb_x : IsFin(wb_k[r]) /\ IsFin(wb_lam[r])

(***************************************************************************)
(* nanmean(v, inplace=False), reduced over the whole vector                *)
(*                                                    func_util.py 33-38   *)
(***************************************************************************)
NmLen == 3          \* longest vector passed

NmVals == {NaN, PInf, NInf, Fin(-1), Fin(2), Fin(3)}

NmIdle ==
    /\ nm_arg = <<>> /\ nm_in = <<>> /\ nm_v = <<>> /\ nm_inplace = FALSE /\ nm_is_nan = <<>>
    /\ nm_pc = "idle" /\ nm_out = NaN

NmCall ==
    /\ \E n \in 1..NmLen : nm_arg \in [1..n -> NmVals]
    /\ nm_in = nm_arg
    /\ nm_inplace \in BOOLEAN
    /\ nm_v = <<>> /\ nm_is_nan = <<>> /\ nm_pc = "start" /\ nm_out = NaN

\* lines 34-35: v is a clone unless inplace
NmClone ==
    /\ nm_pc = "start"
    /\ nm_v' = nm_arg
    /\ nm_pc' = "mask"
    /\ UNCHANGED <<nm_arg, nm_in, nm_inplace, nm_is_nan, nm_out>>

\* torch.isnan of one entry
MIsNonFinite(a) == ~IsFin(a)
IsNanEntry(a) == IsNaN(a)

\* line 36
NmMask ==
    /\ nm_pc = "mask"
    /\ nm_is_nan' = [i \in DOMAIN nm_v |-> IsNanEntry(nm_v[i])]
    /\ nm_pc' = "fill"
    /\ UNCHANGED <<nm_arg, nm_in, nm_v, nm_inplace, nm_out>>

\* line 37: v[is_nan] = 0, which writes the caller's tensor when v aliases it
NmFill ==
    /\ nm_pc = "fill"
    /\ nm_v' = [i \in DOMAIN nm_v |-> IF nm_is_nan[i] THEN Fin(0) ELSE nm_v[i]]
    /\ nm_arg' = IF nm_inplace THEN nm_v' ELSE nm_arg
    /\ nm_pc' = "ret"
    /\ UNCHANGED <<nm_in, nm_inplace, nm_is_nan, nm_out>>

\* (~is_nan).float().sum()
MRawCount(is_nan) == Len(is_nan)
NotNanCount(is_nan) == Cardinality({i \in DOMAIN is_nan : ~is_nan[i]})

\* line 38
NmReturn ==
    /\ nm_pc = "ret"
    /\ nm_out' = FDiv(TSum(nm_v), Fin(NotNanCount(nm_is_nan)))
    /\ nm_pc' = "done"
    /\ UNCHANGED <<nm_arg, nm_in, nm_v, nm_inplace, nm_is_nan>>

NmNext ==
    \/ NmClone /\ UNCHANGED nmRest
    \/ NmMask /\ UNCHANGED nmRest
    \/ NmFill /\ UNCHANGED nmRest
    \/ NmReturn /\ UNCHANGED nmRest

\* Tensor.mean() of a vector
Mean(s) == FDiv(TSum(s), Fin(Len(s)))

(***************************************************************************)
(* estimate_ggd_param(x), x of shape (b, 1, h, w)   func_util.py 162-184   *)
(*                                                                         *)
(* A block is the sequence of its h*w pixels.  The table is the source's   *)
(* r_table sampled at gamma = 0.2, 0.5, 1, 2 (indexes 0, 300, 800, 1800    *)
(* of torch.arange(0.2, 10.001, 0.001)), its values rounded to 1/1000.     *)
(***************************************************************************)
GgBatch == 2        \* largest b
GgPix == 2          \* h * w

GgPixVals == {-1, 0, 1, 2}

gamma == <<Q(2, 10), Q(5, 10), Fin(1), Fin(2)>>
r_table == <<Q(15889, 1000), Q(3333, 1000), Fin(2), Q(1571, 1000)>>

GgIdle ==
    /\ gg_x = <<>> /\ gg_pc = "idle" /\ gg_sigma_sq = <<>> /\ gg_out = <<>>

GgCall ==
    /\ \E b \in 1..GgBatch : gg_x \in [1..b -> [1..GgPix -> GgPixVals]]
    /\ gg_pc = "start" /\ gg_sigma_sq = <<>> /\ gg_out = <<>>

\* x.pow(2).mean(dim=(-1, -2)) of one block
MeanSq(blk) == Mean([i \in DOMAIN blk |-> Fin(blk[i] * blk[i])])

\* x.abs().mean(dim=(-1, -2)) of one block
MeanAbs(blk) == Mean([i \in DOMAIN blk |-> Fin(Abs(blk[i]))])

\* torch.isclose(sigma, 0) with sigma = sqrt(sigma_sq): |sigma| <= 1e-8, that
\* is sigma_sq <= 1e-16.  A mean of squares of integer pixels over h*w pixels
\* is 0 or at least 1 / (h*w), so only 0 is that close.
IsCloseZero(sigma_sq) == IsFin(sigma_sq) /\ sigma_sq.n = 0

\* Tensor.argmin(): the first NaN if there is one, else the first smallest
\* entry (0-based)
ArgMin(s) ==
    IF \E i \in DOMAIN s : IsNaN(s[i])
    THEN (CHOOSE i \in DOMAIN s :
            IsNaN(s[i]) /\ \A j \in DOMAIN s : IsNaN(s[j]) => i <= j) - 1
    ELSE (CHOOSE i \in DOMAIN s :
            /\ \A j \in DOMAIN s : ~FLt(s[j], s[i])
            /\ \A j \in DOMAIN s : (j < i) => FLt(s[i], s[j])) - 1

\* lines 173-174
GgMoments ==
    /\ gg_pc = "start"
    /\ gg_sigma_sq' = [b \in DOMAIN gg_x |-> MeanSq(gg_x[b])]
    /\ gg_pc' = "assert"
    /\ UNCHANGED <<gg_x, gg_out>>

\* the condition of the assert, lines 176-177
AssertHolds(sigma_sq) ==
    ~(\A b \in DOMAIN sigma_sq : IsCloseZero(sigma_sq[b]))

\* lines 176-177: AssertionError when the condition is false
GgAssert ==
    /\ gg_pc = "assert"
    /\ gg_pc' = IF AssertHolds(gg_sigma_sq) THEN "solve" ELSE "raised"
    /\ UNCHANGED <<gg_x, gg_sigma_sq, gg_out>>

\* lines 179-184; sigma = sqrt(sigma_sq) is returned as the sigma_sq it is the
\* root of
GgSolve ==
    /\ gg_pc = "solve"
    /\ gg_out' =
         [b \in DOMAIN gg_x |->
            LET E == MeanAbs(gg_x[b])
                rho == FDiv(gg_sigma_sq[b], FMul(E, E))
                indexes == ArgMin([g \in DOMAIN r_table |->
                                     FAbs(FSub(rho, r_table[g]))])
            IN  [solution |-> gamma[indexes + 1], sigma_of_sq |-> gg_sigma_sq[b]]]
    /\ gg_pc' = "done"
    /\ UNCHANGED <<gg_x, gg_sigma_sq>>

GgNext ==
    \/ GgMoments /\ UNCHANGED ggRest
    \/ GgAssert /\ UNCHANGED ggRest
    \/ GgSolve /\ UNCHANGED ggRest

(***************************************************************************)
(* niqe (niqe_arch.py 157-187) and ilniqe (niqe_arch.py 300-427): the      *)
(* crop, the two scales, the block loops and the concatenation.            *)
(*                                                                         *)
(* A tensor of features is held by shape and origin: a row of the          *)
(* (b, blocks, features) tensor is a sequence of chunks, a chunk being the *)
(* feature vector compute_feature gave for one batch item, scale and       *)
(* block, with its length.  A block is the rectangle it was sliced from    *)
(* (rows r0..r1-1, columns c0..c1-1 of the map) and src, the extent of the *)
(* top-left region of the partitioned image its values were computed from. *)
(***************************************************************************)
MaxDim == 5         \* largest height / width of a small image
MaxBlk == 3         \* largest block size tried on a small image
BkBatch == 2        \* largest batch size b
normalizedWidth == 524

\* block sizes tried on an image resized to normalizedWidth
BigBlks == {175, 262, 300, 524, 600}

Min(a, b) == IF a < b THEN a ELSE b
Max(a, b) == IF a < b THEN b ELSE a

\* the length of compute_feature's result, lines 92-135
FeatLen(pipe) ==
    IF pipe = "niqe" THEN 2 + 4 * 4
    ELSE (2 + 4 * 4) + 2 * (4 - 1) + 2 * (7 - 4) + 2 * (85 - 7) + 2 * (109 - 85)

\* the number of feature columns of a row of chunks
RECURSIVE RowLen(_)
RowLen(row) == IF row = <<>> THEN 0 ELSE row[1].len + RowLen(Tail(row))

BkFresh ==
    /\ bk_pc = "start"
    /\ bk_shape = <<0, 0, 0>> /\ bk_num = <<0, 0>>
    /\ bk_img = <<bk_arg.h, bk_arg.w>> /\ bk_src = bk_img /\ bk_map = <<0, 0>>
    /\ bk_scale = 1 /\ bk_idx = <<0, 0>>
    /\ bk_feat = <<>> /\ bk_blocks = <<>> /\ bk_distparam = <<>>
    /\ bk_downs = <<>> /\ bk_reads = <<>>

BkIdle ==
    /\ bk_pipe = "none"
    /\ bk_arg = [b |-> 0, h |-> 0, w |-> 0, block_size_h |-> 1, block_size_w |-> 1,
                 resize |-> FALSE]
    /\ bk_pc = "idle"
    /\ bk_shape = <<0, 0, 0>> /\ bk_num = <<0, 0>>
    /\ bk_img = <<0, 0>> /\ bk_src = <<0, 0>> /\ bk_map = <<0, 0>>
    /\ bk_scale = 1 /\ bk_idx = <<0, 0>>
    /\ bk_feat = <<>> /\ bk_blocks = <<>> /\ bk_distparam = <<>>
    /\ bk_downs = <<>> /\ bk_reads = <<>>

\* the calls: small images with small blocks, and for ilniqe also resize=True
\* with blocks of the order of normalizedWidth
BkCall ==
    /\ bk_pipe \in {"niqe", "ilniqe"}
    /\ \/ bk_arg \in [b : 1..BkBatch, h : 1..MaxDim, w : 1..MaxDim,
                      block_size_h : 1..MaxBlk, block_size_w : 1..MaxBlk,
                      resize : {FALSE}]
       \/ /\ bk_pipe = "ilniqe"
          /\ bk_arg \in [b : 1..BkBatch, h : {MaxDim}, w : {1, MaxDim},
                         block_size_h : BigBlks, block_size_w : BigBlks,
                         resize : {TRUE}]
    /\ BkFresh

\* ilniqe lines 319-321: imresize(img, sizes=(normalizedWidth, normalizedWidth))
BkResize ==
    /\ bk_pc = "start"
    /\ bk_img' = IF bk_pipe = "ilniqe" /\ bk_arg.resize
                 THEN <<normalizedWidth, normalizedWidth>> ELSE bk_img
    /\ bk_src' = bk_img'
    /\ bk_pc' = "crop"
    /\ UNCHANGED <<bk_pipe, bk_arg, bk_shape, bk_num, bk_map, bk_scale, bk_idx,
                   bk_feat, bk_blocks, bk_distparam,
                   bk_downs, bk_reads>>

\* img[..., 0:num_block_h * block_size_h, 0:num_block_w * block_size_w]
MNoCrop(img, num, bh, bw) == img
Crop(img, num, bh, bw) == <<Min(img[1], num[1] * bh), Min(img[2], num[2] * bw)>>

\* niqe lines 161-164, ilniqe lines 324-327
BkCrop ==
    /\ bk_pc = "crop"
    /\ bk_shape' = <<bk_arg.b, bk_img[1], bk_img[2]>>
    /\ bk_num' = <<bk_img[1] \div bk_arg.block_size_h,
                   bk_img[2] \div bk_arg.block_size_w>>
    /\ bk_img' = Crop(bk_img, bk_num', bk_arg.block_size_h, bk_arg.block_size_w)
    /\ bk_src' = bk_img'
    /\ bk_scale' = 1
    /\ bk_pc' = "norm"
    /\ UNCHANGED <<bk_pipe, bk_arg, bk_map, bk_idx, bk_feat, bk_blocks,
                   bk_distparam,
                   bk_downs, bk_reads>>

\* niqe line 168, ilniqe lines 339-407: the maps of this scale have the size
\* of img; feat = []
BkNormalize ==
    /\ bk_pc = "norm"
    /\ bk_map' = bk_img
    /\ bk_feat' = <<>>
    /\ bk_idx' = <<0, 0>>
    /\ bk_pc' = IF bk_num[1] = 0 \/ bk_num[2] = 0 THEN "stack" ELSE "blocks"
    /\ bk_reads' = Append(bk_reads, [scale |-> bk_scale, downs |-> Len(bk_downs)])
    /\ UNCHANGED <<bk_pipe, bk_arg, bk_shape, bk_num, bk_src, bk_img, bk_scale,
                   bk_blocks, bk_distparam, bk_downs>>

\* a Python slice lo:hi of an axis of length n
SliceLo(lo, n) == Min(lo, n)
SliceHi(lo, hi, n) == Max(Min(hi, n), Min(lo, n))

\* the block sliced at (idx_h, idx_w): niqe lines 174-178, ilniqe 412-416
BlockAt(idx_h, idx_w) ==
    LET bh == bk_arg.block_size_h
        bw == bk_arg.block_size_w
        r0 == SliceLo((idx_h * bh) \div bk_scale, bk_map[1])
        r1 == SliceHi((idx_h * bh) \div bk_scale,
                      ((idx_h + 1) * bh) \div bk_scale, bk_map[1])
        c0 == SliceLo((idx_w * bw) \div bk_scale, bk_map[2])
        c1 == SliceHi((idx_w * bw) \div bk_scale,
                      ((idx_w + 1) * bw) \div bk_scale, bk_map[2])
    IN  [scale |-> bk_scale, idx_h |-> idx_h, idx_w |-> idx_w,
         r0 |-> r0, r1 |-> r1, c0 |-> c0, c1 |-> c1,
         \* the maps are computed from img alone: the padding of the
         \* convolutions replicates img's own border pixels
         src |-> bk_src]

\* compute_feature(block): one feature vector per batch item
ComputeFeature(blk) ==
    [item \in 1..bk_shape[1] |->
        [item |-> item, scale |-> blk.scale, idx_h |-> blk.idx_h,
         idx_w |-> blk.idx_w, len |-> FeatLen(bk_pipe)]]

\* one body of the inner loop, for idx_w in range(num_block_w):
\* for idx_h in range(num_block_h)
BkBlock ==
    /\ bk_pc = "blocks"
    /\ LET blk == BlockAt(bk_idx[2], bk_idx[1])
           last_h == bk_idx[2] + 1 = bk_num[1]
           last_w == bk_idx[1] + 1 = bk_num[2]
       IN  /\ bk_blocks' = Append(bk_blocks, blk)
           /\ bk_feat' = Append(bk_feat, ComputeFeature(blk))
           /\ bk_idx' = IF last_h THEN <<bk_idx[1] + 1, 0>>
                        ELSE <<bk_idx[1], bk_idx[2] + 1>>
           /\ bk_pc' = IF last_h /\ last_w THEN "stack" ELSE "blocks"
    /\ UNCHANGED <<bk_pipe, bk_arg, bk_shape, bk_num, bk_src, bk_img, bk_map, bk_scale,
                   bk_distparam,
                   bk_downs, bk_reads>>

\* torch.stack(feat).transpose(0, 1) (niqe) and torch.stack(feat, dim=1)
\* (ilniqe): (b, blocks, features)
StackBlocks(feat) ==
    [item \in 1..bk_shape[1] |-> [k \in 1..Len(feat) |-> <<feat[k][item]>>]]

\* niqe line 181, ilniqe line 419; torch.stack of an empty list raises
BkStack ==
    /\ bk_pc = "stack"
    /\ IF bk_feat = <<>>
       THEN /\ bk_pc' = "raised"
            /\ UNCHANGED bk_distparam
       ELSE /\ bk_distparam' = Append(bk_distparam, StackBlocks(bk_feat))
            /\ bk_pc' = "down"
    /\ UNCHANGED <<bk_pipe, bk_arg, bk_shape, bk_num, bk_src, bk_img, bk_map, bk_scale,
                   bk_idx, bk_feat, bk_blocks,
                   bk_downs, bk_reads>>

\* the size of x[::2] along one axis
HalfSize(n) == (n + 1) \div 2

\* niqe lines 183-185 (scale 1 only): imresize(img / 255., scale=0.5)
\* ilniqe lines 421-425 (every scale): filter, then [..., ::2, ::2]
BkDown ==
    /\ bk_pc = "down"
    /\ bk_img' = IF bk_pipe = "ilniqe" \/ bk_scale = 1
                 THEN <<HalfSize(bk_img[1]), HalfSize(bk_img[2])>>
                 ELSE bk_img
    /\ bk_scale' = IF bk_scale = 1 THEN 2 ELSE bk_scale
    /\ bk_pc' = IF bk_scale = 1 THEN "norm" ELSE "cat"
    /\ bk_downs' = IF bk_pipe = "ilniqe" \/ bk_scale = 1
                 THEN Append(bk_downs, [scale |-> bk_scale, blocks |-> Len(bk_blocks)])
                 ELSE bk_downs
    /\ UNCHANGED <<bk_pipe, bk_arg, bk_shape, bk_num, bk_src, bk_map, bk_idx, bk_feat,
                   bk_blocks, bk_distparam, bk_reads>>

\* torch.cat along dim 1 (the block axis) of two (b, blocks, features) tensors
MCatBlockAxis(ts) ==
    [item \in DOMAIN ts[1] |-> ts[1][item] \o ts[2][item]]
\* torch.cat(distparam, -1): along the feature axis
CatScales(ts) ==
    [item \in DOMAIN ts[1] |->
        [k \in DOMAIN ts[1][item] |-> ts[1][item][k] \o ts[2][item][k]]]

\* niqe line 187, ilniqe line 427
BkCat ==
    /\ bk_pc = "cat"
    /\ bk_distparam' = CatScales(bk_distparam)
    /\ bk_pc' = "done"
    /\ UNCHANGED <<bk_pipe, bk_arg, bk_shape, bk_num, bk_src, bk_img, bk_map, bk_scale,
                   bk_idx, bk_feat, bk_blocks,
                   bk_downs, bk_reads>>

BkNext ==
    \/ BkResize /\ UNCHANGED bkRest
    \/ BkCrop /\ UNCHANGED bkRest
    \/ BkNormalize /\ UNCHANGED bkRest
    \/ BkBlock /\ UNCHANGED bkRest
    \/ BkStack /\ UNCHANGED bkRest
    \/ BkDown /\ UNCHANGED bkRest
    \/ BkCat /\ UNCHANGED bkRest

(***************************************************************************)
(* Matrices: [nr, nc, e], e[i][j] the entry of row i and column j.  A step *)
(* that can raise gives [ok, v, err].                                      *)
(***************************************************************************)
Mat(nr, nc, F(_, _)) ==
    [nr |-> nr, nc |-> nc, e |-> [i \in 1..nr |-> [j \in 1..nc |-> F(i, j)]]]

EmptyMat == [nr |-> 0, nc |-> 0, e |-> <<>>]

Ok(v) == [ok |-> TRUE, v |-> v, err |-> ""]
Raise(err) == [ok |-> FALSE, v |-> <<>>, err |-> err]

Transpose(a) == Mat(a.nc, a.nr, LAMBDA i, j : a.e[j][i])

\* the size of a broadcast axis, and whether two axes broadcast
BSize(m, n) == IF m = 1 THEN n ELSE m
BAxis(m, n) == m = n \/ m = 1 \/ n = 1
Broadcasts(a, b) == BAxis(a.nr, b.nr) /\ BAxis(a.nc, b.nc)

\* an elementwise operation on two matrices that broadcast
BOp(a, b, Op(_, _)) ==
    Mat(BSize(a.nr, b.nr), BSize(a.nc, b.nc),
        LAMBDA i, j : Op(a.e[IF a.nr = 1 THEN 1 ELSE i][IF a.nc = 1 THEN 1 ELSE j],
                         b.e[IF b.nr = 1 THEN 1 ELSE i][IF b.nc = 1 THEN 1 ELSE j]))

\* a @ b, for a.nc = b.nr
MatMul(a, b) ==
    Mat(a.nr, b.nc,
        LAMBDA i, j : TSum([k \in 1..a.nc |-> FMul(a.e[i][k], b.e[k][j])]))

\* a vector as a 1 x n matrix (unsqueeze)
RowMat(v) == Mat(1, Len(v), LAMBDA i, j : v[j])

Col(a, j) == [i \in 1..a.nr |-> a.e[i][j]]

\* torch_cov(tensor, rowvar, bias=False), func_util.py 41-48; line 47 divides
\* the Python int 1 by shape[-1] - 1
torch_cov(tensor, rowvar) ==
    LET t == IF rowvar THEN tensor ELSE Transpose(tensor)
        c == Mat(t.nr, t.nc, LAMBDA i, j : FSub(t.e[i][j], Mean(t.e[i])))
    IN  IF t.nc - 1 = 0 THEN Raise("ZeroDivisionError")
        ELSE Ok(BOp(RowMat(<<Q(1, t.nc - 1)>>), MatMul(c, Transpose(c)), FMul))

\* nanmean(v) of a vector, func_util.py 33-38
nanmean(v) ==
    LET is_nan == [i \in DOMAIN v |-> IsNanEntry(v[i])]
        filled == [i \in DOMAIN v |-> IF is_nan[i] THEN Fin(0) ELSE v[i]]
    IN  FDiv(TSum(filled), Fin(NotNanCount(is_nan)))

\* nanmean(m, dim=1) of one item's (blocks x features) matrix: a 1 x features row
NanMeanRows(m) == Mat(1, m.nc, LAMBDA i, j : nanmean(Col(m, j)))

\* (cov_pris_param + cov_distparam) / 2
AvgCov(cov_pris, cov) ==
    IF Broadcasts(cov_pris, cov)
    THEN Ok(BOp(BOp(cov_pris, cov, FAdd), RowMat(<<Fin(2)>>), FDiv))
    ELSE Raise("RuntimeError: size mismatch in cov_pris_param + cov_distparam")

\* torch.linalg.pinv(m): kept as the matrix it inverts, with the shape of the
\* result
Pinv(m) == [nr |-> m.nc, nc |-> m.nr, pinv_of |-> m]

\* every step applied to each item of the batch: the first error, else the
\* tuple of results
Each(rs) ==
    IF \E i \in DOMAIN rs : ~rs[i].ok
    THEN Raise(rs[CHOOSE i \in DOMAIN rs :
                    ~rs[i].ok /\ \A j \in DOMAIN rs : ~rs[j].ok => i <= j].err)
    ELSE Ok([i \in DOMAIN rs |-> rs[i].v])

(***************************************************************************)
(* The scoring part of ilniqe (niqe_arch.py 427-450, with the fitweibull   *)
(* call of compute_feature, line 111) and of niqe (niqe_arch.py 187-203).  *)
(*                                                                         *)
(* An ilniqe block of a batch item is the Weibull row compute_feature fits *)
(* for it; its raw feature vector is (scale, shape) as line 112 stacks     *)
(* them.  A niqe block is its feature vector.  The pretrained tensors are  *)
(* those of one batch item (calculate_niqe / calculate_ilniqe repeat them  *)
(* over the batch).                                                        *)
(***************************************************************************)
ScBlocks == 3       \* largest number of blocks of an image
ScDim == 3          \* largest dimension of a pretrained tensor
infConst == 10000

\* Weibull rows of the blocks: one holding a zero, one whose increments are
\* below eps, one whose increments are not
ScWbRows ==
    { r \in WbRowSet :
        /\ r.x \in {<<0, 2>>, <<2, 2>>}
        /\ r.k0 = 5
        /\ \A t \in 1..Iters : r.step[t] = r.step[1] }

ScNqRows == { <<Fin(1), Fin(3)>>, <<Fin(3), Fin(1)>>, <<NaN, Fin(1)>> }

\* the raw feature dimension of the blocks drawn above
ScRawDim == Cardinality({"scale", "shape"})

Unit(i, j) == IF i = j THEN Fin(1) ELSE Fin(0)

\* pretrained tensors of the given sizes
Pretrained(dm, dc, pr, dp, ds) ==
    [mu |-> [j \in 1..dm |-> Fin(1)],
     cov |-> Mat(dc, dc, Unit),
     pv |-> Mat(pr, dp, Unit),
     mean |-> [j \in 1..ds |-> Fin(0)]]

\* the pretrained sizes fit the features
Matched ==
    IF sc_pipe = "niqe"
    THEN /\ Len(sc_model.mu) = ScRawDim
         /\ sc_model.cov.nr = ScRawDim
    ELSE /\ Len(sc_model.mean) = ScRawDim
         /\ sc_model.pv.nr = ScRawDim
         /\ Len(sc_model.mu) = sc_model.pv.nc
         /\ sc_model.cov.nr = sc_model.pv.nc

ScFresh ==
    /\ sc_pc = "features" /\ sc_err = "" /\ sc_ops = <<>>
    /\ sc_distparam = <<>> /\ sc_final_features = <<>> /\ sc_nonan = <<>>
    /\ sc_cov_distparam = <<>> /\ sc_mu = <<>> /\ sc_withmu = <<>>
    /\ sc_invcov = <<>> /\ sc_quality = <<>>

ScIdle ==
    /\ sc_pipe = "none" /\ sc_in = <<>> /\ sc_model = Pretrained(1, 1, 1, 1, 1)
    /\ sc_pc = "idle" /\ sc_err = "" /\ sc_ops = <<>>
    /\ sc_distparam = <<>> /\ sc_final_features = <<>> /\ sc_nonan = <<>>
    /\ sc_cov_distparam = <<>> /\ sc_mu = <<>> /\ sc_withmu = <<>>
    /\ sc_invcov = <<>> /\ sc_quality = <<>>

\* a batch of one image or of two images of the same size
Batches(rows) ==
    UNION { [1..b -> [1..n -> rows]] : b \in 1..2, n \in 1..ScBlocks }

\* the calls: any batch with pretrained tensors that fit, and one image with
\* pretrained tensors of any sizes
ScCall ==
    /\ sc_pipe \in {"niqe", "ilniqe"}
    /\ \/ /\ sc_in \in Batches(IF sc_pipe = "niqe" THEN ScNqRows ELSE ScWbRows)
          /\ \E dp \in 1..ScRawDim :
                sc_model = IF sc_pipe = "niqe"
                           THEN Pretrained(ScRawDim, ScRawDim, 0, 0, 0)
                           ELSE Pretrained(dp, dp, ScRawDim, dp, ScRawDim)
       \/ /\ sc_in \in [1..1 -> [1..2 -> (IF sc_pipe = "niqe" THEN ScNqRows
                                          ELSE ScWbRows)]]
          /\ \E dm, dc \in 1..ScDim :
                IF sc_pipe = "niqe"
                THEN sc_model = Pretrained(dm, dc, 0, 0, 0)
                ELSE \E pr, ds \in 1..ScDim, dp \in 1..ScRawDim :
                        sc_model = Pretrained(dm, dc, pr, dp, ds)
    /\ ScFresh

\* ---- ilniqe ----

\* distparam[distparam > infConst] = infConst, line 428, for one entry
Clamp(a) == IF FLt(Fin(infConst), a) THEN Fin(infConst) ELSE a

\* lines 111-113 and 419-428: per block position, fitweibull over the rows of
\* all batch items (x is reshaped to (bsz * channels, -1)); then the clamp
IlDistparam(batch) ==
    LET n == Len(batch[1])
        fit == [j \in 1..n |-> fitweibull([i \in DOMAIN batch |-> batch[i][j]])]
    IN  [i \in DOMAIN batch |->
            Mat(n, ScRawDim,
                LAMBDA j, c : Clamp(IF c = 1 THEN fit[j][i].lam ELSE fit[j][i].k))]

\* lines 431-432 for one item
IlPCA(d, model) ==
    LET m == RowMat(model.mean)
    IN  IF ~Broadcasts(d, m)
        THEN Raise("RuntimeError: size mismatch in distparam - meanOfSampleData")
        ELSE LET pt == Transpose(model.pv)
                 st == Transpose(BOp(d, m, FSub))
             IN  IF pt.nc # st.nr
                 THEN Raise("RuntimeError: bmm size mismatch in the PCA projection")
                 ELSE Ok(Transpose(MatMul(pt, st)))

\* line 436 for one item: the rows holding a NaN
NanMask(ff) == [j \in 1..ff.nr |-> \E c \in 1..ff.nc : IsNaN(ff.e[j][c])]

\* the rows of all items that the mask keeps, in memory order
RECURSIVE Selected(_, _, _)
Selected(ffs, i, j) ==
    IF i > Len(ffs) THEN <<>>
    ELSE IF j > ffs[i].nr THEN Selected(ffs, i + 1, 1)
    ELSE (IF NanMask(ffs[i])[j] THEN <<>>
          ELSE <<[src |-> <<i, j>>, v |-> ffs[i].e[j]]>>)
         \o Selected(ffs, i, j + 1)

\* line 437: masked_select(~nan_mask).reshape(b, -1, feat_num)
IlDrop(ffs) ==
    LET kept == Selected(ffs, 1, 1)
        b == Len(ffs)
        feat_num == ffs[1].nc
        n == Len(kept) \div b
    IN  IF Len(kept) * feat_num = 0
        THEN Raise("RuntimeError: cannot reshape tensor of 0 elements")
        ELSE IF Len(kept) % b # 0
        THEN Raise("RuntimeError: shape is invalid for input size")
        ELSE Ok([i \in 1..b |-> SubSeq(kept, (i - 1) * n + 1, i * n)])

\* line 438 for one item
IlCov(rows, feat_num) ==
    torch_cov(Mat(Len(rows), feat_num, LAMBDA j, c : rows[j].v[c]), FALSE)

\* lines 441-442 for one item
IlWithMu(ff) ==
    LET mu == NanMeanRows(ff)
    IN  Mat(ff.nr, ff.nc,
            LAMBDA j, c : IF IsNaN(ff.e[j][c]) THEN mu.e[1][c] ELSE ff.e[j][c])

\* the quality taken once, on the mean of the block rows
MPooledQuality(withmu, mu_pris, invcov) ==
    LET m == RowMat(mu_pris)
        pooled == NanMeanRows(withmu)
    IN  IF ~Broadcasts(pooled, m)
        THEN Raise("RuntimeError: size mismatch in final_features_withmu - mu_pris_param")
        ELSE LET diff == BOp(pooled, m, FSub)
             IN  IF diff.nc # invcov.nr \/ invcov.nc # diff.nc
                 THEN Raise("RuntimeError: bmm size mismatch")
                 ELSE Ok([form |-> "sqrt(diff invcov diff^T)",
                          invcov |-> invcov, diff |-> diff])

\* lines 446-448 for one item: sqrt((diff @ invcov * diff).sum(-1)).mean()
IlQuality(withmu, mu_pris, invcov) ==
    LET m == RowMat(mu_pris)
    IN  IF ~Broadcasts(withmu, m)
        THEN Raise("RuntimeError: size mismatch in final_features_withmu - mu_pris_param")
        ELSE LET diff == BOp(withmu, m, FSub)
             IN  IF diff.nc # invcov.nr
                 THEN Raise("RuntimeError: bmm size mismatch")
                 ELSE IF ~BAxis(invcov.nc, diff.nc)
                 THEN Raise("RuntimeError: size mismatch in bmm(diff, invcov) * diff")
                 ELSE Ok([form |-> "mean over blocks of sqrt(diff invcov diff^T)",
                          invcov |-> invcov, diff |-> diff])

\* ---- niqe ----

\* line 187: the blocks' feature vectors as one matrix per item
NqDistparam(batch) ==
    [i \in DOMAIN batch |->
        Mat(Len(batch[i]), Len(batch[i][1]), LAMBDA j, c : batch[i][j][c])]

\* torch.nan_to_num of one entry (the rows drawn hold no infinity, which it
\* would replace by the largest finite float)
NanToNum(a) == IF IsNaN(a) THEN Fin(0) ELSE a

\* lines 192-193 for one item
NqCov(d) ==
    torch_cov(Transpose(Mat(d.nr, d.nc, LAMBDA j, c : NanToNum(d.e[j][c]))), TRUE)

\* lines 198-202 for one item: sqrt(diff @ invcov @ diff^T)
NqQuality(mu, mu_pris, invcov) ==
    LET m == RowMat(mu_pris)
    IN  IF ~Broadcasts(m, mu)
        THEN Raise("RuntimeError: size mismatch in mu_pris_param - mu_distparam")
        ELSE LET diff == BOp(m, mu, FSub)
             IN  IF diff.nc # invcov.nr \/ invcov.nc # diff.nc
                 THEN Raise("RuntimeError: bmm size mismatch")
                 ELSE Ok([form |-> "sqrt(diff invcov diff^T)",
                          invcov |-> invcov, diff |-> diff])

\* ---- the two functions as a whole, on a batch ----

\* ilniqe, lines 427-450: the scores of the batch, or the exception
IlRun(batch, model) ==
    LET d == IlDistparam(batch)
        ff == Each([i \in DOMAIN batch |-> IlPCA(d[i], model)])
    IN  IF ~ff.ok THEN ff
        ELSE LET nn == IlDrop(ff.v)
             IN  IF ~nn.ok THEN nn
                 ELSE LET cv == Each([i \in DOMAIN batch |-> IlCov(nn.v[i], ff.v[1].nc)])
                      IN  IF ~cv.ok THEN cv
                          ELSE LET ac == Each([i \in DOMAIN batch |->
                                                  AvgCov(model.cov, cv.v[i])])
                               IN  IF ~ac.ok THEN ac
                                   ELSE Each([i \in DOMAIN batch |->
                                            IlQuality(IlWithMu(ff.v[i]), model.mu,
                                                      Pinv(ac.v[i]))])

\* niqe, lines 187-203
NqRun(batch, model) ==
    LET d == NqDistparam(batch)
        cv == Each([i \in DOMAIN batch |-> NqCov(d[i])])
    IN  IF ~cv.ok THEN cv
        ELSE LET ac == Each([i \in DOMAIN batch |-> AvgCov(model.cov, cv.v[i])])
             IN  IF ~ac.ok THEN ac
                 ELSE Each([i \in DOMAIN batch |->
                          NqQuality(NanMeanRows(d[i]), model.mu, Pinv(ac.v[i]))])

\* ---- the steps ----

ScRaise(err) ==
    /\ sc_pc' = "raised"
    /\ sc_err' = err

\* lines 419-428 (ilniqe) and 187 (niqe)
IlFeatures ==
    /\ sc_pipe = "ilniqe" /\ sc_pc = "features"
    /\ sc_distparam' = IlDistparam(sc_in)
    /\ sc_pc' = "pca"
    /\ UNCHANGED <<sc_pipe, sc_in, sc_model, sc_err, sc_ops, sc_final_features,
                   sc_nonan, sc_cov_distparam, sc_mu, sc_withmu, sc_invcov,
                   sc_quality>>

NqFeatures ==
    /\ sc_pipe = "niqe" /\ sc_pc = "features"
    /\ sc_distparam' = NqDistparam(sc_in)
    /\ sc_pc' = "nq_mean"
    /\ UNCHANGED <<sc_pipe, sc_in, sc_model, sc_err, sc_ops, sc_final_features,
                   sc_nonan, sc_cov_distparam, sc_mu, sc_withmu, sc_invcov,
                   sc_quality>>

\* lines 431-433
IlProject ==
    /\ sc_pc = "pca"
    /\ LET r == Each([i \in DOMAIN sc_in |-> IlPCA(sc_distparam[i], sc_model)])
       IN  IF r.ok
           THEN /\ sc_final_features' = r.v
                /\ sc_ops' = Append(sc_ops, "pca_bmm")
                /\ sc_pc' = "drop"
                /\ UNCHANGED sc_err
           ELSE /\ ScRaise(r.err)
                /\ UNCHANGED <<sc_final_features, sc_ops>>
    /\ UNCHANGED <<sc_pipe, sc_in, sc_model, sc_distparam, sc_nonan,
                   sc_cov_distparam, sc_mu, sc_withmu, sc_invcov, sc_quality>>

\* lines 436-437
IlDropNan ==
    /\ sc_pc = "drop"
    /\ LET r == IlDrop(sc_final_features)
       IN  IF r.ok
           THEN /\ sc_nonan' = r.v
                /\ sc_pc' = "cov"
                /\ UNCHANGED sc_err
           ELSE /\ ScRaise(r.err)
                /\ UNCHANGED sc_nonan
    /\ UNCHANGED <<sc_pipe, sc_in, sc_model, sc_ops, sc_distparam,
                   sc_final_features, sc_cov_distparam, sc_mu, sc_withmu,
                   sc_invcov, sc_quality>>

\* line 438
IlCovStep ==
    /\ sc_pc = "cov"
    /\ LET r == Each([i \in DOMAIN sc_in |->
                        IlCov(sc_nonan[i], sc_final_features[1].nc)])
       IN  IF r.ok
           THEN /\ sc_cov_distparam' = r.v
                /\ sc_ops' = Append(sc_ops, "cov")
                /\ sc_pc' = "fill"
                /\ UNCHANGED sc_err
           ELSE /\ ScRaise(r.err)
                /\ UNCHANGED <<sc_cov_distparam, sc_ops>>
    /\ UNCHANGED <<sc_pipe, sc_in, sc_model, sc_distparam, sc_final_features,
                   sc_nonan, sc_mu, sc_withmu, sc_invcov, sc_quality>>

\* lines 441-442
IlFill ==
    /\ sc_pc = "fill"
    /\ sc_mu' = [i \in DOMAIN sc_in |-> NanMeanRows(sc_final_features[i])]
    /\ sc_withmu' = [i \in DOMAIN sc_in |-> IlWithMu(sc_final_features[i])]
    /\ sc_pc' = "pinv"
    /\ UNCHANGED <<sc_pipe, sc_in, sc_model, sc_err, sc_ops, sc_distparam,
                   sc_final_features, sc_nonan, sc_cov_distparam, sc_invcov,
                   sc_quality>>

\* line 190
NqMean ==
    /\ sc_pc = "nq_mean"
    /\ sc_mu' = [i \in DOMAIN sc_in |-> NanMeanRows(sc_distparam[i])]
    /\ sc_pc' = "nq_cov"
    /\ UNCHANGED <<sc_pipe, sc_in, sc_model, sc_err, sc_ops, sc_distparam,
                   sc_final_features, sc_nonan, sc_cov_distparam, sc_withmu,
                   sc_invcov, sc_quality>>

\* lines 192-193
NqCovStep ==
    /\ sc_pc = "nq_cov"
    /\ LET r == Each([i \in DOMAIN sc_in |-> NqCov(sc_distparam[i])])
       IN  IF r.ok
           THEN /\ sc_cov_distparam' = r.v
                /\ sc_ops' = Append(sc_ops, "cov")
                /\ sc_pc' = "pinv"
                /\ UNCHANGED sc_err
           ELSE /\ ScRaise(r.err)
                /\ UNCHANGED <<sc_cov_distparam, sc_ops>>
    /\ UNCHANGED <<sc_pipe, sc_in, sc_model, sc_distparam, sc_final_features,
                   sc_nonan, sc_mu, sc_withmu, sc_invcov, sc_quality>>

\* line 445 (ilniqe), lines 196-197 (niqe)
ScPinv ==
    /\ sc_pc = "pinv"
    /\ LET r == Each([i \in DOMAIN sc_in |->
                        AvgCov(sc_model.cov, sc_cov_distparam[i])])
       IN  IF r.ok
           THEN /\ sc_invcov' = [i \in DOMAIN sc_in |-> Pinv(r.v[i])]
                /\ sc_ops' = sc_ops \o <<"cov_add", "pinv">>
                /\ sc_pc' = "quality"
                /\ UNCHANGED sc_err
           ELSE /\ ScRaise(r.err)
                /\ UNCHANGED <<sc_invcov, sc_ops>>
    /\ UNCHANGED <<sc_pipe, sc_in, sc_model, sc_distparam, sc_final_features,
                   sc_nonan, sc_cov_distparam, sc_mu, sc_withmu, sc_quality>>

\* lines 446-450 (ilniqe), lines 198-203 (niqe)
ScScore ==
    /\ sc_pc = "quality"
    /\ LET r == Each([i \in DOMAIN sc_in |->
                        IF sc_pipe = "ilniqe"
                        THEN IlQuality(sc_withmu[i], sc_model.mu, sc_invcov[i])
                        ELSE NqQuality(sc_mu[i], sc_model.mu, sc_invcov[i])])
       IN  IF r.ok
           THEN /\ sc_quality' = r.v
                /\ sc_ops' = Append(sc_ops, "bmm")
                /\ sc_pc' = "done"
                /\ UNCHANGED sc_err
           ELSE /\ ScRaise(r.err)
                /\ UNCHANGED <<sc_quality, sc_ops>>
    /\ UNCHANGED <<sc_pipe, sc_in, sc_model, sc_distparam, sc_final_features,
                   sc_nonan, sc_cov_distparam, sc_mu, sc_withmu, sc_invcov>>

ScNext ==
    \/ IlFeatures /\ UNCHANGED scRest
    \/ NqFeatures /\ UNCHANGED scRest
    \/ IlProject /\ UNCHANGED scRest
    \/ IlDropNan /\ UNCHANGED scRest
    \/ IlCovStep /\ UNCHANGED scRest
    \/ IlFill /\ UNCHANGED scRest
    \/ NqMean /\ UNCHANGED scRest
    \/ NqCovStep /\ UNCHANGED scRest
    \/ ScPinv /\ UNCHANGED scRest
    \/ ScScore /\ UNCHANGED scRest


(***************************************************************************)
(* calculate_niqe (niqe_arch.py 206-240) and calculate_ilniqe              *)
(* (niqe_arch.py 453-491): what is done to img before niqe / ilniqe is     *)
(* called.  An image is [c, h, w, px]; a pixel is the place it has in the  *)
(* caller's image (at) and the pixelwise conversions applied to it (ops).  *)
(* The batch axis is left out: every step acts on the last two axes or on  *)
(* each pixel.                                                             *)
(***************************************************************************)
CrMaxDim == 4       \* largest height / width of the caller's image
CrMaxBorder == 2    \* largest crop_border

Image(c, h, w) ==
    [c |-> c, h |-> h, w |-> w,
     px |-> [r \in 1..h |-> [col \in 1..w |-> [at |-> <<r, col>>, ops |-> <<>>]]]]

\* a Python index i of an axis of length n, as slicing reads it
SliceIndex(i, n) == IF i < 0 THEN Max(i + n, 0) ELSE Min(i, n)

\* img[..., lo:hi, lo:hi]
SliceBoth(img, lo, hi) ==
    LET r0 == SliceIndex(lo, img.h)
        r1 == Max(SliceIndex(hi, img.h), r0)
        c0 == SliceIndex(lo, img.w)
        c1 == Max(SliceIndex(hi, img.w), c0)
    IN  [c |-> img.c, h |-> r1 - r0, w |-> c1 - c0,
         px |-> [r \in 1..(r1 - r0) |->
                    [col \in 1..(c1 - c0) |-> img.px[r0 + r][c0 + col]]]]

\* lines 235-236 / 486-487: if crop_border != 0: img = img[..., crop_border:-crop_border, ...]
MSliceAlways(img, crop_border) == SliceBoth(img, crop_border, -crop_border)
CropBorder(img, crop_border) ==
    IF crop_border # 0 THEN SliceBoth(img, crop_border, -crop_border) ELSE img

\* a pixelwise conversion of img
Pixelwise(img, op, c) ==
    [c |-> c, h |-> img.h, w |-> img.w,
     px |-> [r \in 1..img.h |->
                [col \in 1..img.w |->
                    [at |-> img.px[r][col].at,
                     ops |-> Append(img.px[r][col].ops, op)]]]]

\* to_y_channel(img, 255, color_space): one luma value per pixel
ToY(img) == Pixelwise(img, "to_y_channel", 1)

\* lines 232-233 of calculate_niqe, lines 468-469 of calculate_ilniqe
Convert(fn, img, test_y_channel) ==
    IF fn = "calculate_niqe"
    THEN (IF test_y_channel /\ img.c = 3 THEN ToY(img) ELSE img)
    ELSE Pixelwise(Pixelwise(img, "* 255.", img.c), "to(float64)", img.c)

\* the img argument of the niqe / ilniqe call
Handed(fn, img, crop_border, test_y_channel) ==
    CropBorder(Convert(fn, img, test_y_channel), crop_border)

CrIdle ==
    /\ cr_fn = "none"
    /\ cr_arg = [img |-> Image(1, 0, 0), crop_border |-> 0, test_y_channel |-> FALSE]
    /\ cr_img = Image(1, 0, 0)
    /\ cr_pc = "idle"
    /\ cr_passed = Image(1, 0, 0)

CrCall ==
    /\ cr_fn \in {"calculate_niqe", "calculate_ilniqe"}
    /\ \E c \in {1, 3}, h, w \in 1..CrMaxDim :
          cr_arg \in [img : {Image(c, h, w)}, crop_border : -1..CrMaxBorder,
                      test_y_channel : IF cr_fn = "calculate_niqe"
                                       THEN BOOLEAN ELSE {FALSE}]
    /\ cr_img = cr_arg.img
    /\ cr_pc = "start"
    /\ cr_passed = Image(1, 0, 0)

CrConvert ==
    /\ cr_pc = "start"
    /\ cr_img' = Convert(cr_fn, cr_img, cr_arg.test_y_channel)
    /\ cr_pc' = "crop"
    /\ UNCHANGED <<cr_fn, cr_arg, cr_passed>>

CrCrop ==
    /\ cr_pc = "crop"
    /\ cr_img' = CropBorder(cr_img, cr_arg.crop_border)
    /\ cr_pc' = "call"
    /\ UNCHANGED <<cr_fn, cr_arg, cr_passed>>

\* line 238 / 489
CrHand ==
    /\ cr_pc = "call"
    /\ cr_passed' = cr_img
    /\ cr_pc' = "done"
    /\ UNCHANGED <<cr_fn, cr_arg, cr_img>>

CrNext ==
    \/ CrConvert /\ UNCHANGED crRest
    \/ CrCrop /\ UNCHANGED crRest
    \/ CrHand /\ UNCHANGED crRest

(***************************************************************************)
(* niqe and ilniqe as readers and writers of tensor storage.  A tensor     *)
(* name refers to a storage; a statement either allocates a storage for    *)
(* its result, or gives a view of the storage of its operand, or writes in *)
(* place.  The values of the features are left open: any values may come   *)
(* out of the block loops.                                                 *)
(***************************************************************************)
FrLen == 2          \* number of entries of the image and of the feature tensor

\* a NaN, an ordinary value, a value above infConst
FrVals == {NaN, Fin(1), Fin(2 * infConst)}

\* the storages of the caller's tensors, and those allocated inside the call
CallerStores == {"img", "mu_pris_param", "cov_pris_param", "principleVectors",
                 "meanOfSampleData"}
LocalStores == {"imresize", "cat", "bmm", "clone"}

NoRef == [img |-> "none", distparam |-> "none", final_features |-> "none",
          v |-> "none"]

FrIdle ==
    /\ fr_arg = [pipe |-> "none", resize |-> FALSE,
                 heap |-> [s \in CallerStores \cup LocalStores |-> <<>>]]
    /\ fr_heap = fr_arg.heap
    /\ fr_ref = NoRef
    /\ fr_pc = "idle"
    /\ fr_written = {}
    /\ fr_passed = [store |-> "none", held |-> <<>>]

FrCall ==
    /\ \E pipe \in {"niqe", "ilniqe"}, resize \in BOOLEAN,
          img \in [1..FrLen -> FrVals],
          mu, cov, pv, mean \in [1..1 -> {Fin(1), Fin(2 * infConst)}] :
          /\ pipe = "niqe" => ~resize
          /\ fr_arg = [pipe |-> pipe, resize |-> resize,
                       heap |-> [s \in CallerStores \cup LocalStores |->
                                    CASE s = "img" -> img
                                      [] s = "mu_pris_param" -> mu
                                      [] s = "cov_pris_param" -> cov
                                      [] s = "principleVectors" -> pv
                                      [] s = "meanOfSampleData" -> mean
                                      [] OTHER -> <<>>]]
    /\ fr_heap = fr_arg.heap
    /\ fr_ref = [NoRef EXCEPT !.img = "img"]
    /\ fr_pc = "start"
    /\ fr_written = {}
    /\ fr_passed = [store |-> "none", held |-> <<>>]

\* Tensor.clamp(0.0, 255.0) of one entry: a new value, NaN kept
Clamp255(a) ==
    IF IsNaN(a) THEN a
    ELSE IF FLt(Fin(255), a) THEN Fin(255)
    ELSE IF FLt(a, Fin(0)) THEN Fin(0) ELSE a

\* ilniqe lines 319-321: img = imresize(...); img = img.clamp(0.0, 255.0);
\* both allocate
FrResize ==
    /\ fr_pc = "start"
    /\ IF fr_arg.pipe = "ilniqe" /\ fr_arg.resize
       THEN /\ fr_heap' = [fr_heap EXCEPT !["imresize"] =
                              [i \in DOMAIN fr_heap[fr_ref.img] |->
                                  Clamp255(fr_heap[fr_ref.img][i])]]
            /\ fr_ref' = [fr_ref EXCEPT !.img = "imresize"]
       ELSE UNCHANGED <<fr_heap, fr_ref>>
    /\ fr_pc' = "crop"
    /\ UNCHANGED <<fr_arg, fr_written, fr_passed>>

\* niqe line 164, ilniqe line 327: img = img[..., 0:..., 0:...] is a view of
\* the storage of img
FrCrop ==
    /\ fr_pc = "crop"
    /\ fr_pc' = "features"
    /\ UNCHANGED <<fr_arg, fr_heap, fr_ref, fr_written, fr_passed>>

\* niqe lines 166-187, ilniqe lines 337-427: the maps, the blocks and their
\* features are results of out-of-place operations; torch.cat allocates
FrFeatures ==
    /\ fr_pc = "features"
    /\ \E d \in [1..FrLen -> FrVals] :
          fr_heap' = [fr_heap EXCEPT !["cat"] = d]
    /\ fr_ref' = [fr_ref EXCEPT !.distparam = "cat"]
    /\ fr_pc' = IF fr_arg.pipe = "ilniqe" THEN "clamp" ELSE "nanmean"
    /\ UNCHANGED <<fr_arg, fr_written, fr_passed>>

\* ilniqe line 428: distparam[distparam > infConst] = infConst, in place
FrClamp ==
    /\ fr_pc = "clamp"
    /\ fr_heap' = [fr_heap EXCEPT ![fr_ref.distparam] =
                      [i \in DOMAIN @ |-> Clamp(@[i])]]
    /\ fr_written' = fr_written \cup {fr_ref.distparam}
    /\ fr_pc' = "pca"
    /\ UNCHANGED <<fr_arg, fr_ref, fr_passed>>

\* ilniqe lines 431-432: the subtraction and bmm allocate; the transposes are
\* views (of principleVectors, and of the result of bmm)
FrPCA ==
    /\ fr_pc = "pca"
    /\ fr_heap' = [fr_heap EXCEPT !["bmm"] =
                      [i \in DOMAIN fr_heap[fr_ref.distparam] |->
                          FMul(fr_heap["principleVectors"][1],
                               FSub(fr_heap[fr_ref.distparam][i],
                                    fr_heap["meanOfSampleData"][1]))]]
    /\ fr_ref' = [fr_ref EXCEPT !.final_features = "bmm"]
    /\ fr_pc' = "nanmean"
    /\ UNCHANGED <<fr_arg, fr_written, fr_passed>>

\* func_util.py 34-35: v = v.clone() unless inplace
MAliasRef(inplace, store) == store
CloneRef(inplace, store) == IF inplace THEN store ELSE "clone"

\* niqe line 190: nanmean(distparam, dim=1); ilniqe line 441:
\* nanmean(final_features, dim=1, keepdim=True); func_util.py 33-38 with
\* inplace=False
FrNanmean ==
    /\ fr_pc = "nanmean"
    /\ LET arg == IF fr_arg.pipe = "niqe" THEN fr_ref.distparam
                  ELSE fr_ref.final_features
           v == CloneRef(FALSE, arg)
           is_nan == [i \in DOMAIN fr_heap[arg] |-> IsNanEntry(fr_heap[arg][i])]
       IN  /\ fr_passed' = [store |-> arg, held |-> fr_heap[arg]]
           /\ fr_ref' = [fr_ref EXCEPT !.v = v]
           /\ fr_heap' = [fr_heap EXCEPT ![v] =
                             [i \in DOMAIN fr_heap[arg] |->
                                 IF is_nan[i] THEN Fin(0) ELSE fr_heap[arg][i]]]
           /\ fr_written' = fr_written \cup {v}
    /\ fr_pc' = "score"
    /\ UNCHANGED fr_arg

\* niqe lines 192-203, ilniqe lines 436-450: nan_to_num, masked_select,
\* torch_cov, where, the sums, pinv and bmm all allocate their results
FrScore ==
    /\ fr_pc = "score"
    /\ fr_pc' = "done"
    /\ UNCHANGED <<fr_arg, fr_heap, fr_ref, fr_written, fr_passed>>

FrNext ==
    \/ FrResize /\ UNCHANGED frRest
    \/ FrCrop /\ UNCHANGED frRest
    \/ FrFeatures /\ UNCHANGED frRest
    \/ FrClamp /\ UNCHANGED frRest
    \/ FrPCA /\ UNCHANGED frRest
    \/ FrNanmean /\ UNCHANGED frRest
    \/ FrScore /\ UNCHANGED frRest

(***************************************************************************)
(* estimate_aggd_param (func_util.py 187-227) on one block of finite       *)
(* pixels.  A square root is held by its argument: safe_sqrt(x) is         *)
(* sqrt(x + EPS).  Each division is recorded with its divisor:             *)
(*   kind "value":     the divisor is a                                    *)
(*   kind "safe_sqrt": the divisor is sqrt(a + EPS)                        *)
(*   kind "gammahat":  the divisor is (gammahat^2 + 1)^2, gammahat being   *)
(*                     sqrt(a + EPS) / sqrt(b + EPS)                       *)
(***************************************************************************)
AgLen == 3          \* number of pixels of a block

AgPixVals == {-1, 0, 2}

\* torch.finfo(torch.float32).eps = 2^-23, func_util.py 12 and 57
EPS == Q(1, 8388608)

AgIdle ==
    /\ ag_block = <<>> /\ ag_pc = "idle" /\ ag_count = <<0, 0>>
    /\ ag_var = <<>> /\ ag_rhat = NaN /\ ag_divs = <<>> /\ ag_alpha = ""

AgCall ==
    /\ ag_block \in [1..AgLen -> AgPixVals]
    /\ ag_pc = "start" /\ ag_count = <<0, 0>>
    /\ ag_var = <<>> /\ ag_rhat = NaN /\ ag_divs = <<>> /\ ag_alpha = ""

Division(what, kind, a, b) == [what |-> what, kind |-> kind, a |-> a, b |-> b]

\* the divisor of a recorded division is exactly zero
ZeroDivisor(dv) ==
    CASE dv.kind = "value" -> IsFin(dv.a) /\ dv.a.n = 0
      [] dv.kind = "safe_sqrt" -> dv.a = FNeg(EPS)
      [] dv.kind = "gammahat" ->
            \* gammahat^2 = -1; gammahat^2 is a quotient of a + EPS and b + EPS,
            \* positive when a and b are not negative
            IF Sign(dv.a) >= 0 /\ Sign(dv.b) >= 0 THEN FALSE
            ELSE FAdd(FAdd(dv.a, EPS), FAdd(dv.b, EPS)) = Fin(0)

\* (block * mask).pow(2).sum(dim=(-1, -2)) for the mask of one sign
SumSqOf(blk, sgn) ==
    TSum([i \in DOMAIN blk |-> IF blk[i] * sgn > 0 THEN Fin(blk[i] * blk[i]) ELSE Fin(0)])

\* lines 201-204
AgCounts ==
    /\ ag_pc = "start"
    /\ ag_count' = <<Cardinality({i \in DOMAIN ag_block : ag_block[i] < 0}),
                     Cardinality({i \in DOMAIN ag_block : ag_block[i] > 0})>>
    /\ ag_pc' = "std"
    /\ UNCHANGED <<ag_block, ag_var, ag_rhat, ag_divs, ag_alpha>>

\* lines 206-209
AgStds ==
    /\ ag_pc = "std"
    /\ LET den_l == FAdd(Fin(ag_count[1]), EPS)
           den_r == FAdd(Fin(ag_count[2]), EPS)
       IN  /\ ag_var' = <<FDiv(SumSqOf(ag_block, -1), den_l),
                          FDiv(SumSqOf(ag_block, 1), den_r)>>
           /\ ag_divs' = ag_divs \o
                 <<Division("sum / (count_left + EPS)", "value", den_l, den_l),
                   Division("sum / (count_right + EPS)", "value", den_r, den_r)>>
    /\ ag_pc' = "gammahat"
    /\ UNCHANGED <<ag_block, ag_count, ag_rhat, ag_alpha>>

\* line 211: gammahat = left_std / right_std
AgGammahat ==
    /\ ag_pc = "gammahat"
    /\ ag_divs' = Append(ag_divs, Division("left_std / right_std", "safe_sqrt",
                                           ag_var[2], ag_var[2]))
    /\ ag_pc' = "rhat"
    /\ UNCHANGED <<ag_block, ag_count, ag_var, ag_rhat, ag_alpha>>

\* lines 212-213: rhat = block.abs().mean().pow(2) / block.pow(2).mean()
AgRhat ==
    /\ ag_pc = "rhat"
    /\ ag_rhat' = FDiv(FMul(MeanAbs(ag_block), MeanAbs(ag_block)), MeanSq(ag_block))
    /\ ag_divs' = Append(ag_divs, Division("abs().mean().pow(2) / pow(2).mean()",
                                           "value", MeanSq(ag_block), MeanSq(ag_block)))
    /\ ag_pc' = "rhatnorm"
    /\ UNCHANGED <<ag_block, ag_count, ag_var, ag_alpha>>

\* lines 214-215
AgRhatnorm ==
    /\ ag_pc = "rhatnorm"
    /\ ag_divs' = Append(ag_divs, Division("rhatnorm", "gammahat",
                                           ag_var[1], ag_var[2]))
    /\ ag_pc' = "solve"
    /\ UNCHANGED <<ag_block, ag_count, ag_var, ag_rhat, ag_alpha>>

\* lines 216-227: rhatnorm is NaN exactly when rhat is (gammahat is finite and
\* positive); argmin over distances that are all NaN is index 0
AgSolve ==
    /\ ag_pc = "solve"
    /\ ag_alpha' = IF IsNaN(ag_rhat) THEN "gam[0]" ELSE "gam[argmin]"
    /\ ag_pc' = "done"
    /\ UNCHANGED <<ag_block, ag_count, ag_var, ag_rhat, ag_divs>>

AgNext ==
    \/ AgCounts /\ UNCHANGED agRest
    \/ AgStds /\ UNCHANGED agRest
    \/ AgGammahat /\ UNCHANGED agRest
    \/ AgRhat /\ UNCHANGED agRest
    \/ AgRhatnorm /\ UNCHANGED agRest
    \/ AgSolve /\ UNCHANGED agRest

(***************************************************************************)
(* niqe (niqe_arch.py 157-203) with compute_feature (80-106) and           *)
(* normalize_img_with_guass (func_util.py 76-95) on one single-channel     *)
(* image whose rows are all equal: the image is held by the pixel value of *)
(* each column, a normalized map by the sign of each column.  The kernel   *)
(* is positive and sums to one, so a pixel's normalized value is zero when *)
(* its window is constant and has the sign of (pixel - local mean)         *)
(* otherwise.                                                              *)
(***************************************************************************)
FlBlk == 2          \* block_size_h = block_size_w
\* normalize_img_with_guass(img, kernel_size=7, ...)
kernel_size == 7
FlRadius == kernel_size \div 2

FlPixVals == {0, 128}

\* the fitter compute_feature calls on the block and on its four products
MGgdFitter == "estimate_ggd_param"
Fitter == "estimate_aggd_param"

\* the table of shape values searched by the fitters
gam == gamma

FlIdle ==
    /\ fl_arg = [ndim |-> 0, h |-> 0, w |-> 0, col |-> <<>>]
    /\ fl_pc = "idle"
    /\ fl_img = [h |-> 0, w |-> 0, flat |-> TRUE]
    /\ fl_num = <<0, 0>> /\ fl_scale = 1 /\ fl_map = <<>>
    /\ fl_calls = {} /\ fl_distparam = <<>> /\ fl_err = "" /\ fl_quality = <<>>

FlCall ==
    /\ \E ndim \in {3, 4}, h \in {FlBlk - 1, FlBlk, 2 * FlBlk}, w \in {FlBlk, 2 * FlBlk} :
          \E col \in [1..w -> FlPixVals] :
              fl_arg = [ndim |-> ndim, h |-> h, w |-> w, col |-> col]
    /\ fl_pc = "assert"
    /\ fl_img = [h |-> fl_arg.h, w |-> fl_arg.w,
                 flat |-> \A c \in 1..fl_arg.w : fl_arg.col[c] = fl_arg.col[1]]
    /\ fl_num = <<0, 0>> /\ fl_scale = 1 /\ fl_map = <<>>
    /\ fl_calls = {} /\ fl_distparam = <<>> /\ fl_err = "" /\ fl_quality = <<>>

FlRaise(err) ==
    /\ fl_pc' = "raised"
    /\ fl_err' = err

\* lines 157-159
FlAssert ==
    /\ fl_pc = "assert"
    /\ IF fl_arg.ndim = 4
       THEN fl_pc' = "crop" /\ UNCHANGED fl_err
       ELSE FlRaise("AssertionError: Input image must be a gray or Y (of YCbCr) image")
    /\ UNCHANGED <<fl_arg, fl_img, fl_num, fl_scale, fl_map, fl_calls,
                   fl_distparam, fl_quality>>

\* lines 161-164
FlCrop ==
    /\ fl_pc = "crop"
    /\ fl_num' = <<fl_img.h \div FlBlk, fl_img.w \div FlBlk>>
    /\ fl_img' = [fl_img EXCEPT !.h = Min(fl_img.h, fl_num'[1] * FlBlk),
                                !.w = Min(fl_img.w, fl_num'[2] * FlBlk)]
    /\ fl_pc' = "norm"
    /\ UNCHANGED <<fl_arg, fl_scale, fl_map, fl_calls, fl_distparam, fl_err,
                   fl_quality>>

\* the columns the kernel reads around column c ('replicate' padding repeats
\* the border columns)
Window(c, w) == Max(1, c - FlRadius)..Min(w, c + FlRadius)

\* func_util.py 91-95 for the cropped image of scale 1: (img - mu) / (sigma + C)
NormSign(col, w) ==
    [c \in 1..w |->
        IF \A d \in Window(c, w) : col[d] = col[c] THEN 0
        ELSE IF \A d \in Window(c, w) : col[d] <= col[c] THEN 1
        ELSE IF \A d \in Window(c, w) : col[d] >= col[c] THEN -1
        ELSE 2]

\* line 168.  The pixel values of the downsampled image of scale 2 are not
\* held: a flat image stays flat, any other image may give any signs.
FlNormalize ==
    /\ fl_pc = "norm"
    /\ IF fl_scale = 1
       THEN fl_map' = NormSign(fl_arg.col, fl_img.w)
       ELSE IF fl_img.flat
       THEN fl_map' = [c \in 1..fl_img.w |-> 0]
       ELSE fl_map' \in [1..fl_img.w -> {-1, 0, 1}]
    /\ fl_pc' = "features"
    /\ UNCHANGED <<fl_arg, fl_img, fl_num, fl_scale, fl_calls, fl_distparam,
                   fl_err, fl_quality>>

\* lines 174-178: the columns of block idx_w (0-based) at this scale
FlBlock(idx_w) ==
    SubSeq(fl_map, SliceLo((idx_w * FlBlk) \div fl_scale, fl_img.w) + 1,
           SliceHi((idx_w * FlBlk) \div fl_scale,
                   ((idx_w + 1) * FlBlk) \div fl_scale, fl_img.w))

\* torch.roll(block, shift, dims=3) on the columns
Roll(blk, shift) ==
    [c \in DOMAIN blk |-> blk[((c - 1 - shift) % Len(blk)) + 1]]

\* niqe_arch.py 90-101: the block and block * torch.roll(block, shifts[i]) for
\* shifts (0,1), (1,0), (1,1), (1,-1); a roll along the rows changes nothing
FitInputs(blk) ==
    <<blk,
      [c \in DOMAIN blk |-> blk[c] * Roll(blk, 1)[c]],
      [c \in DOMAIN blk |-> blk[c] * blk[c]],
      [c \in DOMAIN blk |-> blk[c] * Roll(blk, 1)[c]],
      [c \in DOMAIN blk |-> blk[c] * Roll(blk, -1)[c]]>>

AllZero(x) == \A c \in DOMAIN x : x[c] = 0

\* one fitter call: estimate_ggd_param asserts a non-zero variance
\* (func_util.py 175-176), estimate_aggd_param asserts nothing and picks
\* gam[0] when rhat is NaN (func_util.py 212-218)
Fit(fn, x) ==
    IF fn = "estimate_ggd_param" /\ AllZero(x)
    THEN Raise("AssertionError: Expected image with non zero variance of pixel values")
    ELSE Ok(IF AllZero(x) THEN gam[1] ELSE gam[3])

\* compute_feature(block): alpha of the five fits (the other entries are
\* finite products of the positive left_std / right_std)
FlComputeFeature(blk) ==
    Each([i \in 1..5 |-> Fit(Fitter, FitInputs(blk)[i])])

\* lines 170-181: the block loop and torch.stack
FlFeatures ==
    /\ fl_pc = "features"
    /\ LET n == fl_num[1] * fl_num[2]
           feat == [k \in 1..n |-> FlComputeFeature(FlBlock((k - 1) \div fl_num[1]))]
           r == Each(feat)
       IN  /\ fl_calls' = fl_calls \cup
                 { [fn |-> Fitter, zero |-> AllZero(FitInputs(FlBlock(i))[j])] :
                     i \in 0..(IF n = 0 THEN -1 ELSE fl_num[2] - 1), j \in 1..5 }
           /\ IF ~r.ok
              THEN FlRaise(r.err) /\ UNCHANGED fl_distparam
              ELSE IF n = 0
              THEN /\ FlRaise("RuntimeError: stack expects a non-empty TensorList")
                   /\ UNCHANGED fl_distparam
              ELSE /\ fl_distparam' = Append(fl_distparam, r.v)
                   /\ fl_pc' = "down"
                   /\ UNCHANGED fl_err
    /\ UNCHANGED <<fl_arg, fl_img, fl_num, fl_scale, fl_map, fl_quality>>

\* lines 183-185 and the loop header
FlDown ==
    /\ fl_pc = "down"
    /\ IF fl_scale = 1
       THEN /\ fl_img' = [fl_img EXCEPT !.h = HalfSize(@), !.w = HalfSize(@)]
            /\ fl_scale' = 2
            /\ fl_pc' = "norm"
       ELSE /\ fl_pc' = "cat"
            /\ UNCHANGED <<fl_img, fl_scale>>
    /\ UNCHANGED <<fl_arg, fl_num, fl_map, fl_calls, fl_distparam, fl_err,
                   fl_quality>>

\* line 187
FlCat ==
    /\ fl_pc = "cat"
    /\ fl_distparam' = [k \in DOMAIN fl_distparam[1] |->
                           fl_distparam[1][k] \o fl_distparam[2][k]]
    /\ fl_pc' = "score"
    /\ UNCHANGED <<fl_arg, fl_img, fl_num, fl_scale, fl_map, fl_calls, fl_err,
                   fl_quality>>

\* lines 189-203, with pretrained tensors of the size of the features
FlScore ==
    /\ fl_pc = "score"
    /\ LET dim == Len(fl_distparam[1])
           r == NqRun(<<fl_distparam>>, Pretrained(dim, dim, 0, 0, 0))
       IN  IF r.ok
           THEN fl_quality' = r.v /\ fl_pc' = "done" /\ UNCHANGED fl_err
           ELSE FlRaise(r.err) /\ UNCHANGED fl_quality
    /\ UNCHANGED <<fl_arg, fl_img, fl_num, fl_scale, fl_map, fl_calls,
                   fl_distparam>>

FlNext ==
    \/ FlAssert /\ UNCHANGED flRest
    \/ FlCrop /\ UNCHANGED flRest
    \/ FlNormalize /\ UNCHANGED flRest
    \/ FlFeatures /\ UNCHANGED flRest
    \/ FlDown /\ UNCHANGED flRest
    \/ FlCat /\ UNCHANGED flRest
    \/ FlScore /\ UNCHANGED flRest

\* every routine but g is idle
OthersIdle(g) ==
    /\ g = "wb" \/ WbIdle
    /\ g = "nm" \/ NmIdle
    /\ g = "gg" \/ GgIdle
    /\ g = "bk" \/ BkIdle
    /\ g = "sc" \/ ScIdle
    /\ g = "cr" \/ CrIdle
    /\ g = "fr" \/ FrIdle
    /\ g = "ag" \/ AgIdle
    /\ g = "fl" \/ FlIdle

InitWeibull == WbCall /\ OthersIdle("wb")
SpecWeibull == InitWeibull /\ [][WbNext]_vars

InitNanmean == NmCall /\ OthersIdle("nm")
SpecNanmean == InitNanmean /\ [][NmNext]_vars

InitGgd == GgCall /\ OthersIdle("gg")
SpecGgd == InitGgd /\ [][GgNext]_vars

InitBlocks == BkCall /\ OthersIdle("bk")
SpecBlocks == InitBlocks /\ [][BkNext]_vars

InitScore == ScCall /\ OthersIdle("sc")
SpecScore == InitScore /\ [][ScNext]_vars

InitFlat == FlCall /\ OthersIdle("fl")
SpecFlat == InitFlat /\ [][FlNext]_vars

InitAggd == AgCall /\ OthersIdle("ag")
SpecAggd == InitAggd /\ [][AgNext]_vars

InitFrame == FrCall /\ OthersIdle("fr")
SpecFrame == InitFrame /\ [][FrNext]_vars

InitCrop == CrCall /\ OthersIdle("cr")
SpecCrop == InitCrop /\ [][CrNext]_vars

(***************************************************************************)
(* nanmean: the expected value                                             *)
(***************************************************************************)
NonFiniteCount(s) == Cardinality({i \in DOMAIN s : ~IsFin(s[i])})
NanCount(s) == Cardinality({i \in DOMAIN s : IsNaN(s[i])})

\* C3 (as stated): with k non-finite entries (NaN, +inf, -inf) out of n, k < n,
\* nanmean returns the mean of the n-k finite entries.
C3_MeanOfFinite ==
    (nm_pc = "done" /\ NonFiniteCount(nm_in) < Len(nm_in)) =>
        nm_out = Mean(SelectSeq(nm_in, IsFin))

\* C3 (amended): with k NaN entries out of n, k < n, nanmean returns the mean
\* of the n-k entries that are not NaN; +inf and -inf are not removed, they
\* are summed and counted like any other entry.
C3_MeanOfNotNan ==
    (nm_pc = "done" /\ NanCount(nm_in) < Len(nm_in)) =>
        nm_out = Mean(SelectSeq(nm_in, LAMBDA a : ~IsNaN(a)))

\* a call on a vector holding a NaN and two different finite values
C3_Witness ==
    /\ nm_pc = "done"
    /\ NanCount(nm_in) = 1
    /\ Len(nm_in) = 3
    /\ NonFiniteCount(nm_in) = 1
    /\ \E i, j \in DOMAIN nm_in :
          IsFin(nm_in[i]) /\ IsFin(nm_in[j]) /\ nm_in[i] # nm_in[j]
    /\ IsFin(nm_out)

\* C6 (as stated): whenever some block of the batch is all-zero (sigma = 0),
\* estimate_ggd_param ends in the assertion failure and returns nothing, also
\* when other blocks of the batch have non-zero variance.
C6_AnyZeroBlockAsserts ==
    (gg_pc \in {"done", "raised"}
       /\ \E b \in DOMAIN gg_x : \A i \in DOMAIN gg_x[b] : gg_x[b][i] = 0)
    => (gg_pc = "raised" /\ gg_out = <<>>)

(***************************************************************************)
(* The block partition and the concatenation of the scales                 *)
(***************************************************************************)
\* floor(H / bh), floor(W / bw) for the image H x W read at the crop
NumH == bk_shape[2] \div bk_arg.block_size_h
NumW == bk_shape[3] \div bk_arg.block_size_w
RegionH == NumH * bk_arg.block_size_h
RegionW == NumW * bk_arg.block_size_w

BlocksOf(sc) == {k \in DOMAIN bk_blocks : bk_blocks[k].scale = sc}

\* the block loop of scale sc has ended
LoopEnded(sc) ==
    IF sc = 1 THEN bk_scale = 2 \/ bk_pc \in {"stack", "down", "raised"}
    ELSE bk_scale = 2 /\ bk_pc \in {"stack", "down", "cat", "done"}

Disjoint(p, q) ==
    p.r1 <= q.r0 \/ q.r1 <= p.r0 \/ p.c1 <= q.c0 \/ q.c1 <= p.c0

RECURSIVE AreaSum(_)
AreaSum(ks) ==
    IF ks = {} THEN 0
    ELSE LET k == CHOOSE x \in ks : TRUE
         IN  (bk_blocks[k].r1 - bk_blocks[k].r0) * (bk_blocks[k].c1 - bk_blocks[k].c0)
             + AreaSum(ks \ {k})

\* C10: the partition drops partial blocks without padding.  With H x W the
\* image as read at the crop (after ilniqe's optional resize): each scale
\* extracts floor(H/bh) * floor(W/bw) blocks, img is cropped to the top-left
\* floor(H/bh)*bh x floor(W/bw)*bw region, the scale-1 blocks are full-size,
\* pairwise disjoint and cover that region exactly, and no block is computed
\* from a pixel outside it.
C10_Partition ==
    bk_pc \in {"norm", "blocks", "stack", "down", "cat", "done", "raised"} =>
      /\ bk_num = <<NumH, NumW>>
      /\ (bk_scale = 1 => bk_img = <<RegionH, RegionW>>)
      /\ \A sc \in {1, 2} :
            LoopEnded(sc) => Cardinality(BlocksOf(sc)) = NumH * NumW
      /\ \A k \in DOMAIN bk_blocks :
            /\ bk_blocks[k].src[1] <= RegionH
            /\ bk_blocks[k].src[2] <= RegionW
      /\ \A k \in BlocksOf(1) :
            /\ bk_blocks[k].r1 - bk_blocks[k].r0 = bk_arg.block_size_h
            /\ bk_blocks[k].c1 - bk_blocks[k].c0 = bk_arg.block_size_w
            /\ 0 <= bk_blocks[k].r0 /\ bk_blocks[k].r1 <= RegionH
            /\ 0 <= bk_blocks[k].c0 /\ bk_blocks[k].c1 <= RegionW
            /\ \A j \in BlocksOf(1) :
                  j # k => Disjoint(bk_blocks[j], bk_blocks[k])
      /\ (LoopEnded(1) => AreaSum(BlocksOf(1)) = RegionH * RegionW)

\* a finished run on an image that leaves a remainder at the bottom and at the
\* right of a grid of at least 2 x 2 blocks
C10_Witness ==
    /\ bk_pc = "done"
    /\ NumH >= 2 /\ NumW >= 2
    /\ bk_shape[2] > RegionH /\ bk_shape[3] > RegionW
    /\ Cardinality(BlocksOf(1)) = NumH * NumW
    /\ Cardinality(BlocksOf(2)) = NumH * NumW

\* the bounds idx * b // scale and (idx + 1) * b // scale of a block's slices
SliceR0(blk) == (blk.idx_h * bk_arg.block_size_h) \div blk.scale
SliceR1(blk) == ((blk.idx_h + 1) * bk_arg.block_size_h) \div blk.scale
SliceC0(blk) == (blk.idx_w * bk_arg.block_size_w) \div blk.scale
SliceC1(blk) == ((blk.idx_w + 1) * bk_arg.block_size_w) \div blk.scale

\* the slices of a block lie inside the map they were taken from
InsideMap(blk) ==
    /\ blk.r0 = SliceR0(blk) /\ blk.r1 = SliceR1(blk)
    /\ blk.c0 = SliceC0(blk) /\ blk.c1 = SliceC1(blk)

\* C15: at each scale s, for every image size and every block size of at least
\* two pixels (odd sizes included), the blocks sliced by niqe and ilniqe all
\* have height block_size_h // s and width block_size_w // s, are pairwise
\* non-overlapping, and lie inside the normalized map of that scale.
C15_UniformBlocks ==
    (bk_arg.block_size_h >= 2 /\ bk_arg.block_size_w >= 2) =>
        /\ \A k \in DOMAIN bk_blocks :
              /\ bk_blocks[k].r1 - bk_blocks[k].r0
                    = bk_arg.block_size_h \div bk_blocks[k].scale
              /\ bk_blocks[k].c1 - bk_blocks[k].c0
                    = bk_arg.block_size_w \div bk_blocks[k].scale
              /\ InsideMap(bk_blocks[k])
        /\ \A sc \in {1, 2} : \A j, k \in BlocksOf(sc) :
              j # k => Disjoint(bk_blocks[j], bk_blocks[k])

\* C17: a computation processes exactly two scales, 1 then 2; the downsample
\* that gives the scale-2 image is executed after every scale-1 block has been
\* extracted, it is executed exactly once in the computation, and the
\* normalization (hence the blocks) of scale 2 reads the image downsampled
\* once.
C17_ScaleOrder ==
    bk_pc = "done" =>
        /\ bk_reads = <<[scale |-> 1, downs |-> 0], [scale |-> 2, downs |-> 1]>>
        /\ \A j, k \in DOMAIN bk_blocks :
              (bk_blocks[j].scale = 1 /\ bk_blocks[k].scale = 2) => j < k
        /\ Len(bk_downs) = 1
        /\ bk_downs[1] = [scale |-> 1, blocks |-> NumH * NumW]

\* the chunk compute_feature gave for batch item `item` and the k-th block of
\* the loop (idx_w outer, idx_h inner) at scale sc
ChunkOf(item, sc, k) ==
    [item |-> item, scale |-> sc, idx_h |-> (k - 1) % NumH,
     idx_w |-> (k - 1) \div NumH, len |-> FeatLen(bk_pipe)]

\* C4 (as stated): niqe concatenates the two scales along the feature axis
\* (num_blocks rows of 2*18 features), ilniqe along the block axis
\* (2*num_blocks rows of single-scale feature length).
C4_AxisDiffersByPipeline ==
    bk_pc = "done" =>
      \A item \in DOMAIN bk_distparam :
         IF bk_pipe = "niqe"
         THEN /\ Len(bk_distparam[item]) = NumH * NumW
              /\ \A k \in DOMAIN bk_distparam[item] :
                    RowLen(bk_distparam[item][k]) = 2 * 18
         ELSE /\ Len(bk_distparam[item]) = 2 * NumH * NumW
              /\ \A k \in DOMAIN bk_distparam[item] :
                    RowLen(bk_distparam[item][k]) = FeatLen("ilniqe")

\* C4 (amended): niqe and ilniqe both concatenate the two scales along the
\* feature axis: the result has b items of num_blocks rows, row k being block
\* k's scale-1 features followed by block k's scale-2 features (2*18 columns
\* in niqe, 2*234 in ilniqe).
C4_FeatureAxisInBoth ==
    bk_pc = "done" =>
      /\ DOMAIN bk_distparam = 1..bk_arg.b
      /\ \A item \in DOMAIN bk_distparam :
            /\ Len(bk_distparam[item]) = NumH * NumW
            /\ \A k \in DOMAIN bk_distparam[item] :
                  /\ bk_distparam[item][k] =
                        <<ChunkOf(item, 1, k), ChunkOf(item, 2, k)>>
                  /\ RowLen(bk_distparam[item][k])
                        = IF bk_pipe = "niqe" THEN 2 * 18 ELSE 2 * 234

\* a finished ilniqe run over several blocks and a batch of two
C4_Witness ==
    /\ bk_pc = "done"
    /\ bk_pipe = "ilniqe"
    /\ bk_arg.b = 2
    /\ NumH * NumW >= 2
    /\ Len(bk_distparam[1]) = NumH * NumW

(***************************************************************************)
(* Claims about the scoring part                                           *)
(***************************************************************************)
ScEnded == sc_pc \in {"done", "raised"}

\* what a run gives for item i: the score, or the exception
Outcome(r, i) ==
    [ok |-> r.ok, err |-> r.err, score |-> IF r.ok THEN <<r.v[i]>> ELSE <<>>]

ScRun(batch) ==
    IF sc_pipe = "ilniqe" THEN IlRun(batch, sc_model) ELSE NqRun(batch, sc_model)

\* what the call in progress has given for item i
ScOutcome(i) ==
    [ok |-> sc_pc = "done", err |-> sc_err,
     score |-> IF sc_pc = "done" THEN <<sc_quality[i]>> ELSE <<>>]

\* the blocks of item i whose projected features hold no NaN
NoNanBlocks(i) ==
    { j \in 1..sc_final_features[i].nr : ~NanMask(sc_final_features[i])[j] }

\* the stepwise call and the function agree on what is returned
ScAgree ==
    ScEnded => \A i \in DOMAIN sc_in : ScOutcome(i) = Outcome(ScRun(sc_in), i)

\* C1: two equally sized images that each get a score when scored alone get
\* the same scores when scored as a batch of two with the same pretrained
\* model, whichever place each has in the batch.
C1_BatchIndependent ==
    (/\ ScEnded /\ Matched /\ Len(sc_in) = 2
     /\ \A i \in DOMAIN sc_in : ScRun(<<sc_in[i]>>).ok) =>
        \A i \in DOMAIN sc_in : ScOutcome(i) = Outcome(ScRun(<<sc_in[i]>>), 1)

\* C2: in ilniqe, once the rows holding a NaN have been removed, the rows the
\* covariance of item i is computed over are exactly the NaN-free block rows of
\* item i, for every batch whose items each have such a row; and the filled
\* features keep every block row, a NaN entry replaced by the nanmean of its
\* feature over the blocks of item i.
C2_PerItemPolicies ==
    (/\ sc_pipe = "ilniqe" /\ Matched
     /\ sc_final_features # <<>> /\ sc_pc # "drop"
     /\ \A i \in DOMAIN sc_in : NoNanBlocks(i) # {}) =>
        /\ sc_nonan # <<>>
        /\ \A i \in DOMAIN sc_in :
              /\ \A k \in DOMAIN sc_nonan[i] : sc_nonan[i][k].src[1] = i
              /\ { sc_nonan[i][k].src[2] : k \in DOMAIN sc_nonan[i] } = NoNanBlocks(i)
              /\ Len(sc_nonan[i]) = Cardinality(NoNanBlocks(i))
        /\ sc_withmu # <<>> =>
              \A i \in DOMAIN sc_in :
                 /\ sc_withmu[i].nr = sc_final_features[i].nr
                 /\ \A j \in 1..sc_withmu[i].nr, c \in 1..sc_withmu[i].nc :
                       sc_withmu[i].e[j][c] =
                          IF IsNaN(sc_final_features[i].e[j][c])
                          THEN nanmean(Col(sc_final_features[i], c))
                          ELSE sc_final_features[i].e[j][c]

\* C5: with a pretrained model that fits, an image of at least one block (in
\* ilniqe: at least one block row without NaN) scored alone always gets a
\* score: the call never ends in an exception.
C5_FewBlocksNeverRaise ==
    (/\ ScEnded /\ Matched /\ Len(sc_in) = 1
     /\ sc_pipe = "ilniqe" => (sc_final_features # <<>> /\ NoNanBlocks(1) # {})) =>
        sc_pc = "done"

\* C8: with pretrained tensors whose sizes do not fit the features, no matrix
\* operation is executed and no score is returned.
C8_MismatchFailsFast ==
    ~Matched => (sc_ops = <<>> /\ sc_pc # "done")

(***************************************************************************)
(* Claims about crop_border                                                *)
(***************************************************************************)
\* the caller's image with crop_border pixels taken off each of its four edges
PreCropped(img, b) ==
    [c |-> img.c, h |-> img.h - 2 * b, w |-> img.w - 2 * b,
     px |-> [r \in 1..(img.h - 2 * b) |->
                [col \in 1..(img.w - 2 * b) |-> img.px[r + b][col + b]]]]

CrInRange ==
    /\ 0 <= 2 * cr_arg.crop_border
    /\ 2 * cr_arg.crop_border < Min(cr_arg.img.h, cr_arg.img.w)

\* C11: for an H x W image and crop_border = b with 0 <= 2b < min(H, W), the
\* image calculate_niqe / calculate_ilniqe hand to niqe / ilniqe has exactly
\* (H-2b) x (W-2b) pixels, the pixel at (r, c) being the caller's pixel at
\* (r+b, c+b) (nothing removed when b = 0), and it is the image they hand over
\* when called with the already cropped image and crop_border = 0, so that the
\* two scores are equal.
C11_CropBorder ==
    (cr_pc = "done" /\ CrInRange) =>
        LET b == cr_arg.crop_border
        IN  /\ cr_passed.h = cr_arg.img.h - 2 * b
            /\ cr_passed.w = cr_arg.img.w - 2 * b
            /\ \A r \in 1..cr_passed.h, col \in 1..cr_passed.w :
                  cr_passed.px[r][col].at = <<r + b, col + b>>
            /\ cr_passed = Handed(cr_fn, PreCropped(cr_arg.img, b), 0,
                                  cr_arg.test_y_channel)

\* a finished call that took a border off a colour image
C11_Witness ==
    /\ cr_pc = "done" /\ CrInRange
    /\ cr_arg.crop_border = 1
    /\ cr_arg.img.c = 3
    /\ cr_passed.h = 2 /\ cr_passed.w = 1

(***************************************************************************)
(* Claims about what a computation writes                                  *)
(***************************************************************************)
\* C13: a score computation leaves its inputs unchanged: the caller's image
\* and the pretrained mean, covariance and PCA tensors hold the values they
\* were passed with, the tensor passed to nanmean (inplace=False) holds after
\* the call what it held before, and every in-place fill (NaN -> 0, clamp to
\* infConst) writes a storage allocated inside the call.
C13_InputsUnchanged ==
    /\ \A s \in CallerStores : fr_heap[s] = fr_arg.heap[s]
    /\ fr_written \subseteq LocalStores
    /\ fr_pc \in {"score", "done"} =>
          fr_heap[fr_passed.store] = fr_passed.held

\* a finished ilniqe call whose image holds a NaN, whose features were clamped
\* and whose nanmean filled a NaN
C13_Witness ==
    /\ fr_pc = "done"
    /\ fr_arg.pipe = "ilniqe"
    /\ \E i \in DOMAIN fr_arg.heap["img"] : IsNaN(fr_arg.heap["img"][i])
    /\ fr_written = {"cat", "clone"}
    /\ \E i \in DOMAIN fr_passed.held :
          IsNaN(fr_passed.held[i]) /\ fr_heap[fr_ref.v][i] = Fin(0)

(***************************************************************************)
(* Claims about estimate_aggd_param                                        *)
(***************************************************************************)
\* C16: estimate_aggd_param never divides by exactly zero: for every block,
\* those without negative values, without positive values or all zero
\* included, each division it performs has a non-zero divisor.
C16_NoZeroDivisor ==
    \A i \in DOMAIN ag_divs : ~ZeroDivisor(ag_divs[i])

(***************************************************************************)
(* Claims about the flat image                                             *)
(***************************************************************************)
\* a flat gray image of 2 x 2 blocks, passed with four dimensions
FlatCase ==
    /\ fl_arg.ndim = 4
    /\ fl_arg.h = 2 * FlBlk /\ fl_arg.w = 2 * FlBlk
    /\ \A c \in 1..fl_arg.w : fl_arg.col[c] = 128

\* C14: scoring a flat gray image (all pixels 128) of two blocks by two blocks
\* with niqe over 2 scales never reaches a precondition failure: no assertion
\* (the zero-variance assertion of estimate_ggd_param is never called upon)
\* and no other exception is raised on the all-zero normalized blocks, and at
\* its end the call has returned a score.
C14_FlatImageScores ==
    FlatCase =>
        /\ fl_pc # "raised" /\ fl_err = ""
        /\ fl_calls \subseteq {[fn |-> "estimate_aggd_param", zero |-> TRUE]}
        /\ fl_pc = "done" => Len(fl_quality) = 1

\* the flat image has been scored: both scales gave all-zero blocks to the
\* fitter
C14_Witness ==
    /\ FlatCase
    /\ fl_pc = "done"
    /\ fl_calls = {[fn |-> "estimate_aggd_param", zero |-> TRUE]}
    /\ Len(fl_distparam) = 4
    /\ Len(fl_quality) = 1

(***************************************************************************)
(* Claims about the value of the score                                     *)
(***************************************************************************)
HasNaN(m) == \E j \in 1..m.nr, c \in 1..m.nc : IsNaN(m.e[j][c])

\* bmm(diff, invcov): a NaN entry of a row of diff makes every entry of that
\* row of the product NaN (NaN * x = NaN for every x), and with it the
\* quadratic form, its square root and a mean that takes it in
ScoreIsNaN(q) == HasNaN(q.diff)

\* C12: every quality score returned by niqe or ilniqe is a real number >= 0
\* for each batch item, never NaN: no returned score is the square root of a
\* quadratic form over a diff that holds NaN.
C12_ScoreIsNumber ==
    sc_pc = "done" => \A i \in DOMAIN sc_quality : ~ScoreIsNaN(sc_quality[i])

(***************************************************************************)
(* Claims about the aggregation of the score                               *)
(***************************************************************************)
\* entry c of mu_pris_param, broadcast along the features when it has one entry
MuPris(c) == sc_model.mu[IF Len(sc_model.mu) = 1 THEN 1 ELSE c]

\* entry c of row j of t, broadcast along the features when it has one column
Entry(t, j, c) == t.e[j][IF t.nc = 1 THEN 1 ELSE c]

\* C18: niqe takes one Mahalanobis term per batch item, on the difference of
\* the pristine mean and the nanmean of the item's block features, and one
\* square root; ilniqe takes one term per block row, on the block's features
\* minus the pristine mean, a square root per block, and the mean of these
\* over all blocks of the item.
C18_Aggregation ==
    sc_pc = "done" =>
        \A i \in DOMAIN sc_quality :
            LET q == sc_quality[i]
            IN  /\ q.invcov = sc_invcov[i]
                /\ IF sc_pipe = "niqe"
                   THEN /\ q.form = "sqrt(diff invcov diff^T)"
                        /\ q.diff.nr = 1
                        /\ \A c \in 1..q.diff.nc :
                              q.diff.e[1][c] =
                                  FSub(MuPris(c),
                                       Entry(NanMeanRows(sc_distparam[i]), 1, c))
                   ELSE /\ q.form = "mean over blocks of sqrt(diff invcov diff^T)"
                        /\ q.diff.nr = Len(sc_in[i])
                        /\ \A j \in 1..q.diff.nr, c \in 1..q.diff.nc :
                              q.diff.e[j][c] =
                                  FSub(Entry(sc_withmu[i], j, c), MuPris(c))

\* ilniqe has scored an image of several blocks, one of them filled with the
\* mean of the others
C18_Witness ==
    /\ sc_pc = "done" /\ sc_pipe = "ilniqe"
    /\ sc_quality[1].diff.nr >= 2
    /\ \E j \in 1..sc_final_features[1].nr : NanMask(sc_final_features[1])[j]
    /\ \E j, k \in 1..sc_quality[1].diff.nr :
          sc_quality[1].diff.e[j] # sc_quality[1].diff.e[k]

\* the stepwise call and the function agree on what is returned
WbAgree ==
    wb_pc = "done" =>
        \A r \in DOMAIN wb_x :
            fitweibull(wb_x)[r] = [k |-> wb_k[r], lam |-> wb_lam[r]]

====
